---- MODULE Spec2Model ----
(***************************************************************************)
(* Weather icon asset pipeline (convert_animated_weather_icons.py and      *)
(* convert_weather_icons.py): timing extraction, frame sampling,           *)
(* monochrome packing, the asset table built by main() and the emitted    *)
(* C resolver findAnimatedWeatherIcon / findWeatherIcon.                   *)
(***************************************************************************)
EXTENDS Integers, Sequences, FiniteSets, TLC

VARIABLES
    pc,               \* control position of the component that is running
    converter,        \* "animated" (convert_animated_weather_icons.py) or "static"
    svg_dir,          \* <root>/production/line/svg: icon name -> source content
    cidx,             \* main(): position in WEATHER_CONDITIONS.items() (1-based)
    vidx,             \* main(): position in the variants list of that entry
    processed_icons,  \* main(): the list of records appended so far
    request,          \* the runtime call: [condition, isDay]
    found,            \* the resolver's return value: a C index into the emitted array
    svg_source,       \* the file handed to get_svg_animation_params / extract_svg_frames
    timing,           \* get_svg_animation_params' outcome: [raised, value]
    extract_args,     \* extract_svg_frames' call: [frame_count, fault]
    extracted,        \* extract_svg_frames' return value: [frame_paths, duration_ms]
    img,              \* convert_frames_to_monochrome: the image of the frame in hand
    resized,          \* the same image as it left img.resize (kept for reference)
    steps,            \* the image operations applied to the frame so far, in order
    mono_frames,      \* the monochrome frame files handed to frames_to_c_arrays
    bitmaps,          \* frames_to_c_arrays: bitmap_data of each frame, in order
    repacked,         \* a later call of frames_to_c_arrays on one of these files alone
    env,              \* main(): what the environment of the run grants
    header_content,   \* main(): the frame pointer arrays emitted so far
    header_file,      \* the header file as written (NoFile until then)
    mapping_file,     \* the JSON manifest as written (NoFile until then)
    exit_code,        \* the exit status of the process (Running until it ends)
    trace,            \* main(): what each pass of the loop did, in order
    accessor_call,    \* the device's call of getAnimationFrame: [weatherType, frameIndex]
    accessor_result,  \* what that call and getAnimationFrameCount returned
    cpp_file,         \* update_impl_file: the content of WeatherAnimations.cpp, in pieces
    impl_result,      \* update_impl_file: [called, returned, original]
    pixel,            \* frames_to_c_arrays: the pixel <<x, y>> of a 128x64 frame in hand
    slot,             \* the place in bitmap_data that pixel is packed into
    static_bitmap     \* png_to_c_array's buffer for one of the monochrome files

pipelineVars == <<converter, svg_dir, cidx, vidx, processed_icons, request, found>>
timingVars == <<svg_source, timing>>
samplerVars == <<extract_args, extracted>>
packerVars == <<img, resized, steps, mono_frames, bitmaps, repacked>>
buildVars ==
    <<env, header_content, header_file, mapping_file, exit_code, trace,
      accessor_call, accessor_result>>

updaterVars == <<cpp_file, impl_result>>
bitmapVars == <<pixel, slot>>

vars ==
    <<pc, pipelineVars, timingVars, samplerVars, packerVars, buildVars,
      updaterVars, bitmapVars, static_bitmap>>

(***************************************************************************)
(* Bounds of the model.                                                    *)
(***************************************************************************)
MaxSources == 3      \* at most this many .svg files exist under the root
MaxFrames == 4       \* frame counts 1..MaxFrames next to FRAME_COUNT
MaxDurLen == 3       \* longest dur="..." attribute value, in characters
MaxPieces == 5       \* longest WeatherAnimations.cpp, in pieces of text

(***************************************************************************)
(* Program constants.                                                      *)
(***************************************************************************)
FRAME_COUNT == 10
ANIM_DURATION == 2000
OLED_WIDTH == 128
OLED_HEIGHT == 64
TFT_WIDTH == 240
TFT_HEIGHT == 240
bitmap_size == 1024  \* frames_to_c_arrays: "Fixed size for the WeatherAnimations library"
threshold == 128     \* convert_frames_to_monochrome

NULL == "NULL"       \* the C null pointer of the end marker row

WEATHER_CONDITIONS ==
    << [condition |-> "clear-night",     is_dict |-> FALSE, name |-> "clear-night",        day |-> "", night |-> ""],
       [condition |-> "cloudy",          is_dict |-> FALSE, name |-> "cloudy",             day |-> "", night |-> ""],
       [condition |-> "fog",             is_dict |-> FALSE, name |-> "fog",                day |-> "", night |-> ""],
       [condition |-> "hail",            is_dict |-> FALSE, name |-> "hail",               day |-> "", night |-> ""],
       [condition |-> "lightning",       is_dict |-> FALSE, name |-> "thunderstorms",      day |-> "", night |-> ""],
       [condition |-> "lightning-rainy", is_dict |-> FALSE, name |-> "thunderstorms-rain", day |-> "", night |-> ""],
       [condition |-> "partlycloudy",    is_dict |-> TRUE,  name |-> "",
            day |-> "partly-cloudy-day", night |-> "partly-cloudy-night"],
       [condition |-> "pouring",         is_dict |-> FALSE, name |-> "extreme-rain",       day |-> "", night |-> ""],
       [condition |-> "rainy",           is_dict |-> FALSE, name |-> "rain",               day |-> "", night |-> ""],
       [condition |-> "snowy",           is_dict |-> FALSE, name |-> "snow",               day |-> "", night |-> ""],
       [condition |-> "snowy-rainy",     is_dict |-> FALSE, name |-> "sleet",              day |-> "", night |-> ""],
       [condition |-> "sunny",           is_dict |-> TRUE,  name |-> "",
            day |-> "clear-day", night |-> "clear-night"],
       [condition |-> "windy",           is_dict |-> FALSE, name |-> "wind",               day |-> "", night |-> ""],
       [condition |-> "windy-variant",   is_dict |-> FALSE, name |-> "extreme-wind",       day |-> "", night |-> ""],
       [condition |-> "exceptional",     is_dict |-> FALSE, name |-> "extreme",            day |-> "", night |-> ""] >>

\* the two variants enumerated night first
variants_night_first(entry) ==
    IF entry.is_dict
    THEN << [variant_suffix |-> "night", icon_filename |-> entry.night],
            [variant_suffix |-> "day",   icon_filename |-> entry.day] >>
    ELSE << [variant_suffix |-> "", icon_filename |-> entry.name] >>

\* main(): "variants = [...]" for one entry of WEATHER_CONDITIONS
variants(entry) ==
    IF entry.is_dict
    THEN << [variant_suffix |-> "day",   icon_filename |-> entry.day],
            [variant_suffix |-> "night", icon_filename |-> entry.night] >>
    ELSE << [variant_suffix |-> "", icon_filename |-> entry.name] >>

Conditions == {WEATHER_CONDITIONS[k].condition : k \in 1..Len(WEATHER_CONDITIONS)}

IconNames ==
    UNION {{variants(WEATHER_CONDITIONS[k])[v].icon_filename :
                v \in 1..Len(variants(WEATHER_CONDITIONS[k]))} :
           k \in 1..Len(WEATHER_CONDITIONS)}

(***************************************************************************)
(* Timing Extractor: get_svg_animation_params.                             *)
(* A source is [readable, elems]; elems are the file's elements in text    *)
(* order, each [tag, has_dur, dur] with dur the attribute value as a       *)
(* sequence of characters.                                                 *)
(***************************************************************************)
Digits == {"0", "1", "2", "3", "4", "5", "6", "7", "8", "9"}

DigitVal(ch) ==
    CASE ch = "0" -> 0 [] ch = "1" -> 1 [] ch = "2" -> 2 [] ch = "3" -> 3
      [] ch = "4" -> 4 [] ch = "5" -> 5 [] ch = "6" -> 6 [] ch = "7" -> 7
      [] ch = "8" -> 8 [] ch = "9" -> 9

\* Python: c in s, for a one-character c
HasChar(s, c) == \E k \in 1..Len(s) : s[k] = c

\* Python: 'ms' in s
HasMs(s) == \E k \in 1..(Len(s) - 1) : s[k] = "m" /\ s[k + 1] = "s"

\* Python: s.replace(c, '') for a one-character c
RemoveChar(s, c) == SelectSeq(s, LAMBDA ch : ch # c)

\* Python: s.replace('ms', ''), left to right, non-overlapping
RECURSIVE RemoveMs(_)
RemoveMs(s) ==
    IF Len(s) = 0 THEN <<>>
    ELSE IF Len(s) >= 2 /\ s[1] = "m" /\ s[2] = "s"
         THEN RemoveMs(SubSeq(s, 3, Len(s)))
         ELSE <<s[1]>> \o RemoveMs(Tail(s))

Unsigned(s) == IF Len(s) > 0 /\ s[1] \in {"-", "+"} THEN Tail(s) ELSE s

\* Python float(s) accepts s (decimal literals; the characters of the model
\* hold no exponent, no whitespace, no underscore, no inf/nan).
IsFloatLiteral(s) ==
    LET body == Unsigned(s)
    IN /\ Len(body) > 0
       /\ \A k \in 1..Len(body) : body[k] \in Digits \cup {"."}
       /\ Cardinality({k \in 1..Len(body) : body[k] = "."}) <= 1
       /\ \E k \in 1..Len(body) : body[k] \in Digits

RECURSIVE DigitsValue(_)
DigitsValue(ds) ==
    IF Len(ds) = 0 THEN 0
    ELSE 10 * DigitsValue(SubSeq(ds, 1, Len(ds) - 1)) + DigitVal(ds[Len(ds)])

RECURSIVE Pow10(_)
Pow10(n) == IF n = 0 THEN 1 ELSE 10 * Pow10(n - 1)

\* Python: int(float(s) * scale), int() truncating toward zero
IntOfScaledFloat(s, scale) ==
    LET body == Unsigned(s)
        dot == IF HasChar(body, ".")
               THEN CHOOSE k \in 1..Len(body) : body[k] = "."
               ELSE Len(body) + 1
        decimals == IF dot > Len(body) THEN 0 ELSE Len(body) - dot
        mant == DigitsValue(RemoveChar(body, "."))
        magnitude == (mant * scale) \div Pow10(decimals)
    IN IF Len(s) > 0 /\ s[1] = "-" THEN 0 - magnitude ELSE magnitude

\* re.findall(r'<animate[^>]*dur="([^"]*)"'): every tag whose name starts
\* with "animate" and that carries a dur attribute
FindAnimate(src) ==
    LET hits == SelectSeq(src.elems,
                    LAMBDA e : e.has_dur /\ e.tag \in {"animate", "animateTransform", "animateMotion"})
    IN [k \in 1..Len(hits) |-> hits[k].dur]

\* re.findall(r'<animateTransform[^>]*dur="([^"]*)"')
FindAnimateTransform(src) ==
    LET hits == SelectSeq(src.elems, LAMBDA e : e.has_dur /\ e.tag = "animateTransform")
    IN [k \in 1..Len(hits) |-> hits[k].dur]

\* the body of the try block: [exc, value]
params_try_block(src) ==
    IF ~src.readable THEN [exc |-> TRUE, value |-> 0]
    ELSE LET first == FindAnimate(src)
             animations == IF Len(first) = 0 THEN FindAnimateTransform(src) ELSE first
         IN IF Len(animations) > 0
            THEN LET dur_str == animations[1]
                 IN IF HasChar(dur_str, "s")
                    THEN IF IsFloatLiteral(RemoveChar(dur_str, "s"))
                         THEN [exc |-> FALSE,
                               value |-> IntOfScaledFloat(RemoveChar(dur_str, "s"), 1000)]
                         ELSE [exc |-> TRUE, value |-> 0]
                    ELSE IF HasMs(dur_str)
                         THEN IF IsFloatLiteral(RemoveMs(dur_str))
                              THEN [exc |-> FALSE,
                                    value |-> IntOfScaledFloat(RemoveMs(dur_str), 1)]
                              ELSE [exc |-> TRUE, value |-> 0]
                         ELSE [exc |-> FALSE, value |-> ANIM_DURATION]
            ELSE [exc |-> FALSE, value |-> ANIM_DURATION]

\* get_svg_animation_params without its except clause: the error escapes
get_svg_animation_params_unguarded(src) ==
    LET r == params_try_block(src)
    IN [raised |-> r.exc, value |-> IF r.exc THEN 0 ELSE r.value]

get_svg_animation_params(src) ==
    LET r == params_try_block(src)
    IN IF r.exc
       THEN [raised |-> FALSE, value |-> ANIM_DURATION]
       ELSE [raised |-> FALSE, value |-> r.value]

\* a source that declares no duration
PlainSvg == [readable |-> TRUE, elems |-> <<>>]

(***************************************************************************)
(* Frame Sampler: extract_svg_frames.  A fault record names what the       *)
(* external collaborators (file system, cairosvg, PIL) do in one call:     *)
(* setup_ok (makedirs / Image.open raise nothing), base_ok (svg2png made   *)
(* base.png), saved (the loop indices whose frame was saved and copied).   *)
(***************************************************************************)
\* "progress = i / (frame_count - 1) if frame_count > 1 else 0", as a fraction
progress(i, frame_count) ==
    IF frame_count > 1 THEN <<i, frame_count - 1>> ELSE <<0, 1>>

\* Python int(a / b) for b # 0: truncation toward zero
TruncDiv(a, b) ==
    IF (a >= 0) = (b > 0) THEN (IF a >= 0 THEN a ELSE 0 - a) \div (IF b > 0 THEN b ELSE 0 - b)
    ELSE 0 - ((IF a >= 0 THEN a ELSE 0 - a) \div (IF b > 0 THEN b ELSE 0 - b))

\* Fixed point for math.sin / math.cos: a real v is the integer v * Scale.
Scale == 10000
HalfPi == 15708      \* pi / 2 in fixed point

\* the Taylor series x - x^3/3! + x^5/5! - ... (k = 1) or
\* 1 - x^2/2! + x^4/4! - ... (k = 0) for 0 <= x < pi / 2, term by term
RECURSIVE taylor(_, _, _, _)
taylor(x2, term, k, n) ==
    IF n = 0 THEN 0
    ELSE term - taylor(x2, (term * x2) \div (Scale * (k + 1) * (k + 2)), k + 2, n - 1)

\* <<sin, cos>> of progress * 2 * math.pi for progress = p[1] / p[2] in 0..1:
\* the angle is quarter * pi / 2 + a with 0 <= a < pi / 2
sin_cos(p) ==
    LET quarter == (4 * p[1]) \div p[2]
        a == (((4 * p[1]) % p[2]) * HalfPi) \div p[2]
        x2 == (a * a) \div Scale
        sin_a == taylor(x2, a, 1, 7)
        cos_a == taylor(x2, Scale, 0, 7)
    IN CASE quarter % 4 = 0 -> <<sin_a, cos_a>>
         [] quarter % 4 = 1 -> <<cos_a, 0 - sin_a>>
         [] quarter % 4 = 2 -> <<0 - sin_a, 0 - cos_a>>
         [] quarter % 4 = 3 -> <<0 - cos_a, sin_a>>

\* "opacity = max(155, min(255, int(155 + 100 * sin)))",
\* "offset_x = int(5 * sin)", "offset_y = int(5 * cos)"
transform_of(sin, cos) ==
    [opacity |-> IF TruncDiv(155 * Scale + 100 * sin, Scale) < 155 THEN 155
                 ELSE IF TruncDiv(155 * Scale + 100 * sin, Scale) > 255 THEN 255
                 ELSE TruncDiv(155 * Scale + 100 * sin, Scale),
     offset_x |-> TruncDiv(5 * sin, Scale),
     offset_y |-> TruncDiv(5 * cos, Scale)]

at_angle(sc) == transform_of(sc[1], sc[2])

\* the transform applied to the base image for frame i
frame_transform(i, frame_count) == at_angle(sin_cos(progress(i, frame_count)))

\* one frame file: frame_{i:03d}.png with the phase it was drawn at and
\* the transform applied to the base image
Frame(i, frame_count) ==
    [index |-> i, progress |-> progress(i, frame_count),
     transform |-> frame_transform(i, frame_count)]

\* "for i in range(frame_count)": a frame that raised or was not saved is
\* left out of frame_paths and the loop goes on
RECURSIVE extract_loop(_, _, _, _)
extract_loop(i, frame_count, saved, frame_paths) ==
    IF i >= frame_count THEN frame_paths
    ELSE extract_loop(i + 1, frame_count, saved,
             IF i \in saved
             THEN Append(frame_paths, Frame(i, frame_count))
             ELSE frame_paths)

extract_svg_frames(src, frame_count, fault) ==
    LET duration_ms == get_svg_animation_params(src).value
    IN IF ~fault.setup_ok
       THEN [frame_paths |-> <<>>, duration_ms |-> ANIM_DURATION]
       ELSE IF ~fault.base_ok
            THEN [frame_paths |-> <<>>, duration_ms |-> duration_ms]
            ELSE [frame_paths |-> extract_loop(0, frame_count, fault.saved, <<>>),
                  duration_ms |-> duration_ms]

(***************************************************************************)
(* convert_frames_to_monochrome and frames_to_c_arrays as main() sees      *)
(* them: which files come out.  mono_ok are the enumerate() positions      *)
(* whose conversion succeeded, pack_bad the positions in monochrome_paths  *)
(* whose file makes frames_to_c_arrays raise inside its try block.         *)
(***************************************************************************)
RECURSIVE mono_loop(_, _, _, _)
mono_loop(i, frame_paths, mono_ok, monochrome_paths) ==
    IF i >= Len(frame_paths) THEN monochrome_paths
    ELSE mono_loop(i + 1, frame_paths, mono_ok,
             IF i \in mono_ok
             THEN Append(monochrome_paths, [file_index |-> i, frame |-> frame_paths[i + 1]])
             ELSE monochrome_paths)

convert_frames_to_monochrome(frame_paths, fault) ==
    IF Len(frame_paths) = 0 THEN <<>>
    ELSE IF ~fault.mono_setup_ok THEN <<>>
    ELSE mono_loop(0, frame_paths, fault.mono_ok, <<>>)

\* the second component of frames_to_c_arrays' return value
frames_to_c_arrays_count(monochrome_paths, fault) ==
    IF \E k \in 0..(Len(monochrome_paths) - 1) : k \in fault.pack_bad
    THEN 0
    ELSE Len(monochrome_paths)

NoFault ==
    [setup_ok |-> TRUE, base_ok |-> TRUE, saved |-> 0..(FRAME_COUNT - 1),
     mono_setup_ok |-> TRUE, mono_ok |-> 0..(FRAME_COUNT - 1), pack_bad |-> {}]

\* extract_svg_frames not called
NoExtract == [frame_paths |-> <<>>, duration_ms |-> 0]

(***************************************************************************)
(* main(): the loop over WEATHER_CONDITIONS and its variants.              *)
(***************************************************************************)
LoopDone == cidx > Len(WEATHER_CONDITIONS)

CurrentVariant == variants(WEATHER_CONDITIONS[cidx])[vidx]

\* the next (condition, variant) of the nested for loops
Advance ==
    IF vidx < Len(variants(WEATHER_CONDITIONS[cidx]))
    THEN /\ cidx' = cidx /\ vidx' = vidx + 1
    ELSE /\ cidx' = cidx + 1 /\ vidx' = 1

\* a missing source ending both loops
after_missing_break(c, v) == <<Len(WEATHER_CONDITIONS) + 1, 1>>

\* "if not os.path.exists(svg_path): ... continue": the loop position after
\* a pass whose source file is missing
after_missing(c, v) ==
    IF v < Len(variants(WEATHER_CONDITIONS[c])) THEN <<c, v + 1>> ELSE <<c + 1, 1>>

SkipMissing ==
    /\ cidx' = after_missing(cidx, vidx)[1]
    /\ vidx' = after_missing(cidx, vidx)[2]

\* "condition + ('-' + variant_suffix if variant_suffix else '')"
condition_full(condition, variant_suffix) ==
    IF variant_suffix # "" THEN condition \o "-" \o variant_suffix ELSE condition

\* the characters of the names main() forms (condition_full)
Chars(name) ==
    CASE name = "clear-night" ->
           <<"c", "l", "e", "a", "r", "-", "n", "i", "g", "h", "t">>
      [] name = "cloudy" ->
           <<"c", "l", "o", "u", "d", "y">>
      [] name = "fog" ->
           <<"f", "o", "g">>
      [] name = "hail" ->
           <<"h", "a", "i", "l">>
      [] name = "lightning" ->
           <<"l", "i", "g", "h", "t", "n", "i", "n", "g">>
      [] name = "lightning-rainy" ->
           <<"l", "i", "g", "h", "t", "n", "i", "n", "g", "-", "r", "a", "i", "n", "y">>
      [] name = "partlycloudy-day" ->
           <<"p", "a", "r", "t", "l", "y", "c", "l", "o", "u", "d", "y", "-", "d", "a", "y">>
      [] name = "partlycloudy-night" ->
           <<"p", "a", "r", "t", "l", "y", "c", "l", "o", "u", "d", "y", "-", "n", "i", "g", "h", "t">>
      [] name = "pouring" ->
           <<"p", "o", "u", "r", "i", "n", "g">>
      [] name = "rainy" ->
           <<"r", "a", "i", "n", "y">>
      [] name = "snowy" ->
           <<"s", "n", "o", "w", "y">>
      [] name = "snowy-rainy" ->
           <<"s", "n", "o", "w", "y", "-", "r", "a", "i", "n", "y">>
      [] name = "sunny-day" ->
           <<"s", "u", "n", "n", "y", "-", "d", "a", "y">>
      [] name = "sunny-night" ->
           <<"s", "u", "n", "n", "y", "-", "n", "i", "g", "h", "t">>
      [] name = "windy" ->
           <<"w", "i", "n", "d", "y">>
      [] name = "windy-variant" ->
           <<"w", "i", "n", "d", "y", "-", "v", "a", "r", "i", "a", "n", "t">>
      [] name = "exceptional" ->
           <<"e", "x", "c", "e", "p", "t", "i", "o", "n", "a", "l">>

LowerCase == {"a", "b", "c", "d", "e", "f", "g", "h", "i", "j", "k", "l", "m", "n", "o", "p", "q", "r", "s", "t", "u", "v", "w", "x", "y", "z"}
UpperCase == {"A", "B", "C", "D", "E", "F", "G", "H", "I", "J", "K", "L", "M", "N", "O", "P", "Q", "R", "S", "T", "U", "V", "W", "X", "Y", "Z"}
DigitChars == {"0", "1", "2", "3", "4", "5", "6", "7", "8", "9"}

\* str.lower() on one character
lower(ch) ==
    CASE ch = "A" -> "a"
      [] ch = "B" -> "b"
      [] ch = "C" -> "c"
      [] ch = "D" -> "d"
      [] ch = "E" -> "e"
      [] ch = "F" -> "f"
      [] ch = "G" -> "g"
      [] ch = "H" -> "h"
      [] ch = "I" -> "i"
      [] ch = "J" -> "j"
      [] ch = "K" -> "k"
      [] ch = "L" -> "l"
      [] ch = "M" -> "m"
      [] ch = "N" -> "n"
      [] ch = "O" -> "o"
      [] ch = "P" -> "p"
      [] ch = "Q" -> "q"
      [] ch = "R" -> "r"
      [] ch = "S" -> "s"
      [] ch = "T" -> "t"
      [] ch = "U" -> "u"
      [] ch = "V" -> "v"
      [] ch = "W" -> "w"
      [] ch = "X" -> "x"
      [] ch = "Y" -> "y"
      [] ch = "Z" -> "z"
      [] OTHER -> ch

\* a sequence of characters as a string
RECURSIVE Join(_, _)
Join(chars, k) ==
    IF k > Len(chars) THEN "" ELSE chars[k] \o Join(chars, k + 1)

\* the name left as it is
var_name_unsanitized(name) == name

\* "re.sub(r'[^a-zA-Z0-9]', '_', condition_full).lower()"
var_name(name) ==
    Join([k \in 1..Len(Chars(name)) |->
             lower(IF Chars(name)[k] \in LowerCase \cup UpperCase \cup DigitChars
                   THEN Chars(name)[k] ELSE "_")], 1)

\* the delay computed from the requested frame count
frame_delay_of_requested(duration_ms, frame_count) == TruncDiv(duration_ms, FRAME_COUNT)

\* "int(duration_ms / frame_count)"
frame_delay(duration_ms, frame_count) == TruncDiv(duration_ms, frame_count)

\* Python's exit status
Running == 0 - 1
ExitOk == 0
ExitError == 1

\* what one pass of the loop did: the frame files by their frame index
Pass(condition, variant_suffix, icon_filename, fault, ex, monochrome_paths, frame_count, outcome) ==
    [condition |-> condition, variant |-> variant_suffix, icon_filename |-> icon_filename,
     fault |-> fault, duration_ms |-> ex.duration_ms,
     frame_paths |-> [k \in 1..Len(ex.frame_paths) |-> ex.frame_paths[k].index],
     monochrome_paths |->
         [k \in 1..Len(monochrome_paths) |->
             [file_index |-> monochrome_paths[k].file_index,
              index |-> monochrome_paths[k].frame.index]],
     frame_count |-> frame_count,
     outcome |-> outcome]

\* the pass from "if monochrome_paths:" on, for a source with frames
AnimatedIconPacked(fault, ex, monochrome_paths, frame_count) ==
    LET condition == WEATHER_CONDITIONS[cidx].condition
        variant_suffix == CurrentVariant.variant_suffix
        icon_filename == CurrentVariant.icon_filename
        name == condition_full(condition, variant_suffix)
        log(outcome) == Pass(condition, variant_suffix, icon_filename, fault,
                             ex, monochrome_paths, frame_count, outcome)
    IN IF Len(monochrome_paths) = 0
       THEN /\ Advance
            /\ trace' = Append(trace, log("no_monochrome"))
            /\ UNCHANGED <<pc, processed_icons, header_content, exit_code>>
       ELSE IF frame_count = 0
       THEN \* int(duration_ms / frame_count) raises ZeroDivisionError,
            \* which nothing catches: the process ends
            /\ pc' = "crashed"
            /\ exit_code' = ExitError
            /\ trace' = Append(trace, log("ZeroDivisionError"))
            /\ UNCHANGED <<cidx, vidx, processed_icons, header_content>>
       ELSE /\ header_content' = Append(header_content,
                   [variable_name |-> var_name(name) \o "Frames",
                    frames |-> [k \in 1..frame_count |-> monochrome_paths[k].frame.index]])
            /\ processed_icons' = Append(processed_icons,
                   [condition |-> condition,
                    variant |-> variant_suffix,
                    icon_filename |-> icon_filename,
                    oled_frame_count |-> frame_count,
                    variable_name |-> var_name(name) \o "Frames",
                    frame_delay |-> frame_delay(ex.duration_ms, frame_count)])
            /\ trace' = Append(trace, log("record"))
            /\ Advance /\ UNCHANGED <<pc, exit_code>>

\* the pass from the return of extract_svg_frames on
AnimatedIconExtracted(fault, ex) ==
    IF Len(ex.frame_paths) = 0
    THEN /\ Advance
         /\ trace' = Append(trace, Pass(WEATHER_CONDITIONS[cidx].condition,
                                        CurrentVariant.variant_suffix,
                                        CurrentVariant.icon_filename,
                                        fault, ex, <<>>, 0, "no_frames"))
         /\ UNCHANGED <<pc, processed_icons, header_content, exit_code>>
    ELSE AnimatedIconPacked(fault, ex,
             convert_frames_to_monochrome(ex.frame_paths, fault),
             frames_to_c_arrays_count(convert_frames_to_monochrome(ex.frame_paths, fault), fault))

\* one pass of the inner loop body of convert_animated_weather_icons.main
AnimatedIcon(fault) ==
    IF CurrentVariant.icon_filename \notin DOMAIN svg_dir
    THEN /\ SkipMissing
         /\ trace' = Append(trace, Pass(WEATHER_CONDITIONS[cidx].condition,
                                        CurrentVariant.variant_suffix,
                                        CurrentVariant.icon_filename,
                                        NoFault, NoExtract, <<>>, 0, "missing"))
         /\ UNCHANGED <<pc, processed_icons, header_content, exit_code>>
    ELSE AnimatedIconExtracted(fault,
             extract_svg_frames(svg_dir[CurrentVariant.icon_filename], FRAME_COUNT, fault))

\* png_to_c_array raising inside its try block (the OLED png missing or
\* unreadable after a failed conversion): it returns ""
StaticFault == [NoFault EXCEPT !.pack_bad = {0}]

\* one pass of the inner loop body of convert_weather_icons.main: a record
\* is appended for every source that exists, whatever the conversions did;
\* c_array_ok tells whether png_to_c_array returned the arrays' text
StaticIconConverted(c_array_ok) ==
    LET condition == WEATHER_CONDITIONS[cidx].condition
        variant_suffix == CurrentVariant.variant_suffix
        icon_filename == CurrentVariant.icon_filename
        name == condition_full(condition, variant_suffix)
    IN IF icon_filename \notin DOMAIN svg_dir
       THEN /\ SkipMissing
            /\ trace' = Append(trace, Pass(condition, variant_suffix, icon_filename, NoFault,
                                           NoExtract, <<>>, 0, "missing"))
            /\ UNCHANGED <<pc, processed_icons, header_content, exit_code>>
       ELSE /\ header_content' =
                   IF c_array_ok
                   THEN Append(header_content,
                               [variable_name |-> var_name(name) \o "Frames", frames |-> <<0>>])
                   ELSE header_content
            /\ processed_icons' = Append(processed_icons,
                   [condition |-> condition,
                    variant |-> variant_suffix,
                    icon_filename |-> icon_filename,
                    oled_frame_count |-> 1,
                    variable_name |-> var_name(name) \o "Frames",
                    frame_delay |-> 0])
            /\ trace' = Append(trace, Pass(condition, variant_suffix, icon_filename,
                                           IF c_array_ok THEN NoFault ELSE StaticFault,
                                           NoExtract, <<>>, 1, "record"))
            /\ Advance /\ UNCHANGED <<pc, exit_code>>

\* the pass with every conversion working
StaticIcon == StaticIconConverted(TRUE)

(***************************************************************************)
(* The emitted lookup table and resolver (C code in the header text).      *)
(* A C index i is element i + 1 of the TLA+ sequence.                      *)
(***************************************************************************)
EndMarker ==
    [condition |-> NULL, variant |-> NULL, icon_filename |-> NULL,
     oled_frame_count |-> 0, variable_name |-> NULL, frame_delay |-> 0]

\* "const AnimatedIconMapping animatedWeatherIcons[] = {...}" /
\* "const IconMapping weatherIcons[] = {...}"
EmittedTable(icons) == Append(icons, EndMarker)

NotFound == 0 - 1    \* a scan that ran into the end marker

\* scan_exact without the variant test: the first row of the condition
RECURSIVE scan_exact_any_variant(_, _, _, _)
scan_exact_any_variant(arr, condition, variant, i) ==
    IF arr[i + 1].condition = NULL THEN NotFound
    ELSE IF arr[i + 1].condition = condition THEN i
         ELSE scan_exact_any_variant(arr, condition, variant, i + 1)

\* first loop: same condition, and no variant or the requested variant
RECURSIVE scan_exact(_, _, _, _)
scan_exact(arr, condition, variant, i) ==
    IF arr[i + 1].condition = NULL THEN NotFound
    ELSE IF arr[i + 1].condition = condition
         THEN IF arr[i + 1].variant # ""
              THEN IF arr[i + 1].variant = variant
                   THEN i
                   ELSE scan_exact(arr, condition, variant, i + 1)
              ELSE i
         ELSE scan_exact(arr, condition, variant, i + 1)

\* second loop: same condition, any variant
RECURSIVE scan_condition(_, _, _)
scan_condition(arr, condition, i) ==
    IF arr[i + 1].condition = NULL THEN NotFound
    ELSE IF arr[i + 1].condition = condition THEN i
         ELSE scan_condition(arr, condition, i + 1)

\* third loop: strcmp(..., "cloudy")
RECURSIVE scan_cloudy(_, _)
scan_cloudy(arr, i) ==
    IF arr[i + 1].condition = NULL THEN NotFound
    ELSE IF arr[i + 1].condition = "cloudy" THEN i
         ELSE scan_cloudy(arr, i + 1)

\* findIcon returning NULL when no loop matched
findIcon_null_when_unmatched(arr, condition, isDay) ==
    LET variant == IF isDay THEN "day" ELSE "night"
        r1 == scan_exact(arr, condition, variant, 0)
        r2 == scan_condition(arr, condition, 0)
        r3 == scan_cloudy(arr, 0)
    IN IF r1 # NotFound THEN r1
       ELSE IF r2 # NotFound THEN r2
       ELSE IF r3 # NotFound THEN r3
       ELSE NotFound

\* findIcon with the "cloudy" loop ahead of the any-variant loop
findIcon_cloudy_before_condition(arr, condition, isDay) ==
    LET variant == IF isDay THEN "day" ELSE "night"
        r1 == scan_exact(arr, condition, variant, 0)
        r2 == scan_condition(arr, condition, 0)
        r3 == scan_cloudy(arr, 0)
    IN IF r1 # NotFound THEN r1
       ELSE IF r3 # NotFound THEN r3
       ELSE IF r2 # NotFound THEN r2
       ELSE 0

\* findAnimatedWeatherIcon / findWeatherIcon: the index of the row returned
findIcon(arr, condition, isDay) ==
    LET variant == IF isDay THEN "day" ELSE "night"
        r1 == scan_exact(arr, condition, variant, 0)
        r2 == scan_condition(arr, condition, 0)
        r3 == scan_cloudy(arr, 0)
    IN IF r1 # NotFound THEN r1
       ELSE IF r2 # NotFound THEN r2
       ELSE IF r3 # NotFound THEN r3
       ELSE 0

(***************************************************************************)
(* Images.  An image is [mode, width, height, bg, px]: px gives the value  *)
(* of a few pixels <<x, y>>, every other pixel has the value bg.  Values   *)
(* are [r, g, b, a] in mode "RGBA", 0..255 in mode "L", 0 or 255 in "1".   *)
(***************************************************************************)
\* img.getpixel((x, y))
getpixel(image, x, y) ==
    IF <<x, y>> \in DOMAIN image.px THEN image.px[<<x, y>>] ELSE image.bg

\* PIL's RGBA -> L conversion (ITU-R 601-2 luma, alpha ignored)
Luma(c) == (c.r * 19595 + c.g * 38470 + c.b * 7471 + 32768) \div 65536

\* img.convert("L")
convert_L(image) ==
    [mode |-> "L", width |-> image.width, height |-> image.height,
     bg |-> Luma(image.bg),
     px |-> [p \in DOMAIN image.px |-> Luma(image.px[p])]]

\* the point() table with ">=" in place of ">"
point_value_inclusive(x) == IF x >= threshold THEN 255 ELSE 0

\* "lambda x: 255 if x > threshold else 0"
point_value(x) == IF x > threshold THEN 255 ELSE 0

\* img.point(..., mode='1')
point_1(image) ==
    [mode |-> "1", width |-> image.width, height |-> image.height,
     bg |-> point_value(image.bg),
     px |-> [p \in DOMAIN image.px |-> point_value(image.px[p])]]

(***************************************************************************)
(* Monochrome Packer: the per-frame body of frames_to_c_arrays.            *)
(* bitmap_data is a sequence; Python index j is element j + 1.             *)
(***************************************************************************)
\* a buffer sized like png_to_c_array's: one byte per column and 8-row band
bitmap_zeros_per_band(width, height) ==
    [j \in 1..(width * ((height + 7) \div 8)) |-> 0]

\* "bitmap_data = [0] * bitmap_size"
bitmap_zeros(width, height) == [j \in 1..bitmap_size |-> 0]

\* the byte advancing down a column: 8 bytes per column of a 64-row panel
byte_index_by_column(x, y, width) == x * (OLED_HEIGHT \div 8) + (y \div 8)

\* eight pixels of a row to a byte
byte_index_by_row(x, y, width) == (y * width + x) \div 8

\* "byte_index = (y // 8) * width + x"
byte_index(x, y, width) == (y \div 8) * width + x

\* "bit_position = y % 8"
bit_position_of(y) == y % 8

RECURSIVE Pow2(_)
Pow2(n) == IF n = 0 THEN 1 ELSE 2 * Pow2(n - 1)

BitIsSet(v, b) == (v \div Pow2(b)) % 2 = 1

\* "v |= (1 << bit_position)"
SetBit(v, bit_position) == IF BitIsSet(v, bit_position) THEN v ELSE v + Pow2(bit_position)

\* the body of the inner loop for one pixel
pack_pixel(image, bitmap_data, x, y) ==
    IF byte_index(x, y, image.width) < bitmap_size
    THEN IF getpixel(image, x, y) = 0
         THEN [bitmap_data EXCEPT ![byte_index(x, y, image.width) + 1] = SetBit(@, bit_position_of(y))]
         ELSE bitmap_data
    ELSE bitmap_data

\* "for x in range(0, width)", from the loop state st = [x, bitmap_data] up
\* to x = last: the pixels of row y in increasing x, the first half of what
\* remains and then the rest; the result is the loop state after x = last
RECURSIVE pack_row(_, _, _, _)
pack_row(image, y, st, last) ==
    IF st.x > last THEN st
    ELSE IF st.x = last
    THEN [x |-> st.x + 1, bitmap_data |-> pack_pixel(image, st.bitmap_data, st.x, y)]
    ELSE pack_row(image, y, pack_row(image, y, st, (st.x + last) \div 2), last)

\* "for y in range(0, height)", from the loop state st = [y, bitmap_data] up
\* to y = last: the rows in increasing y, each row in full
RECURSIVE pack_rows(_, _, _)
pack_rows(image, st, last) ==
    IF st.y > last THEN st
    ELSE IF st.y = last
    THEN [y |-> st.y + 1,
          bitmap_data |-> pack_row(image, st.y, [x |-> 0, bitmap_data |-> st.bitmap_data],
                                   image.width - 1).bitmap_data]
    ELSE pack_rows(image, pack_rows(image, st, (st.y + last) \div 2), last)

\* bitmap_data of one frame
pack_frame(image) ==
    pack_rows(image, [y |-> 0, bitmap_data |-> bitmap_zeros(image.width, image.height)],
              image.height - 1).bitmap_data

\* convert_weather_icons.png_to_c_array: "for bit in range(min(8, height -
\* y))" from bit on, for the byte of column x in the band that starts at
\* row y
RECURSIVE band_byte(_, _, _, _, _)
band_byte(image, x, y, bit, byte_val) ==
    IF bit >= (IF image.height - y < 8 THEN image.height - y ELSE 8) THEN byte_val
    ELSE band_byte(image, x, y, bit + 1,
             IF x < image.width /\ y + bit < image.height /\ getpixel(image, x, y + bit) = 0
             THEN SetBit(byte_val, bit)
             ELSE byte_val)

\* "for x in range(width)" from the loop state st = [x, bitmap_data] up to
\* x = last: one byte appended per column
RECURSIVE band_row(_, _, _, _)
band_row(image, y, st, last) ==
    IF st.x > last THEN st
    ELSE IF st.x = last
    THEN [x |-> st.x + 1,
          bitmap_data |-> Append(st.bitmap_data, band_byte(image, st.x, y, 0, 0))]
    ELSE band_row(image, y, band_row(image, y, st, (st.x + last) \div 2), last)

\* "for y in range(0, height, 8)" from the loop state st = [band,
\* bitmap_data] up to band = last, band b starting at row 8 * b
RECURSIVE bands(_, _, _)
bands(image, st, last) ==
    IF st.band > last THEN st
    ELSE IF st.band = last
    THEN [band |-> st.band + 1,
          bitmap_data |-> band_row(image, 8 * st.band,
                                   [x |-> 0, bitmap_data |-> st.bitmap_data],
                                   image.width - 1).bitmap_data]
    ELSE bands(image, bands(image, st, (st.band + last) \div 2), last)

\* the static buffer made the fixed size of the animated one
png_to_c_array_fixed_size(image) == pack_frame(image)

\* png_to_c_array: bitmap_data
png_to_c_array(image) ==
    bands(image, [band |-> 0, bitmap_data |-> <<>>], ((image.height + 7) \div 8) - 1).bitmap_data

\* one buffer allocated before the loop and carried from frame to frame
RECURSIVE pack_into_shared_buffer(_, _, _, _)
pack_into_shared_buffer(frame_paths, i, bitmap_data, c_arrays) ==
    IF i > Len(frame_paths) THEN c_arrays
    ELSE pack_into_shared_buffer(frame_paths, i + 1,
             pack_rows(frame_paths[i], [y |-> 0, bitmap_data |-> bitmap_data],
                       frame_paths[i].height - 1).bitmap_data,
             Append(c_arrays,
                    pack_rows(frame_paths[i], [y |-> 0, bitmap_data |-> bitmap_data],
                              frame_paths[i].height - 1).bitmap_data))

frames_to_c_arrays_shared_buffer(frame_paths) ==
    pack_into_shared_buffer(frame_paths, 1, bitmap_zeros(OLED_WIDTH, OLED_HEIGHT), <<>>)

\* "for i, frame_path in enumerate(frame_paths)": one buffer per frame
frames_to_c_arrays(frame_paths) ==
    [i \in 1..Len(frame_paths) |-> pack_frame(frame_paths[i])]

(***************************************************************************)
(* The artifacts main() writes after the loop: the header file and the     *)
(* JSON manifest.  A Python dict is a function from its keys; assigning to *)
(* a key that is present replaces its value.                               *)
(***************************************************************************)
url_base == "https://raw.githubusercontent.com/vortitron/weather-icons/main/production"

\* d[k] = v
put(d, k, v) == [x \in (DOMAIN d) \cup {k} |-> IF x = k THEN v ELSE d[x]]

\* f"{i:03d}"
pad3(i) ==
    IF i < 10 THEN "00" \o ToString(i)
    ELSE IF i < 100 THEN "0" \o ToString(i)
    ELSE ToString(i)

\* the key without the variant
manifest_key_condition_only(icon) == icon.condition

\* the key with the variant in front
manifest_key_variant_first(icon) ==
    IF icon.variant = "" THEN icon.condition ELSE icon.variant \o "-" \o icon.condition

\* "key = condition if not variant else f'{condition}-{variant}'"
manifest_key(icon) ==
    IF icon.variant = "" THEN icon.condition ELSE icon.condition \o "-" \o icon.variant

\* "for i in range(icon['oled_frame_count'])": the frame URLs of one key
RECURSIVE frame_urls(_, _, _, _)
frame_urls(key, i, count, urls) ==
    IF i >= count THEN urls
    ELSE frame_urls(key, i + 1, count,
             Append(urls, url_base \o "/oled_animated/" \o key \o "_frame_" \o pad3(i) \o ".png"))

\* convert_animated_weather_icons.main: "for icon in processed_icons" from
\* position i (1-based) on; icon['tft_gif'] is condition_full + ".gif"
RECURSIVE animated_url_mapping(_, _, _)
animated_url_mapping(icons, i, url_mapping) ==
    IF i > Len(icons) THEN url_mapping
    ELSE LET key == manifest_key(icons[i])
             tft_gif == condition_full(icons[i].condition, icons[i].variant) \o ".gif"
         IN animated_url_mapping(icons, i + 1,
                [written |-> TRUE,
                 tft |-> put(url_mapping.tft, key, url_base \o "/tft_animated/" \o tft_gif),
                 oled |-> put(url_mapping.oled, key,
                              frame_urls(key, 0, icons[i].oled_frame_count, <<>>))])

\* convert_weather_icons.main: one URL per key in both maps; tft_png and
\* oled_png are condition_full + ".png"
RECURSIVE static_url_mapping(_, _, _)
static_url_mapping(icons, i, url_mapping) ==
    IF i > Len(icons) THEN url_mapping
    ELSE LET key == manifest_key(icons[i])
             png == condition_full(icons[i].condition, icons[i].variant) \o ".png"
         IN static_url_mapping(icons, i + 1,
                [written |-> TRUE,
                 tft |-> put(url_mapping.tft, key, url_base \o "/tft/" \o png),
                 oled |-> put(url_mapping.oled, key, url_base \o "/oled/" \o png)])

NoHeader == [written |-> FALSE, arrays |-> <<>>, table |-> <<>>]
NoMapping == [written |-> FALSE, tft |-> <<>>, oled |-> <<>>]

\* 'url_mapping = {"tft": {}, "oled": {}}' filled and dumped
url_mapping_of(conv, icons) ==
    LET empty == [written |-> TRUE, tft |-> <<>>, oled |-> <<>>]
    IN IF conv = "animated" THEN animated_url_mapping(icons, 1, empty)
       ELSE static_url_mapping(icons, 1, empty)

\* the environment in which nothing fails
EnvOk ==
    [argv_ok |-> TRUE, root_is_dir |-> TRUE, tools_ok |-> TRUE, dirs_ok |-> TRUE,
     header_ok |-> TRUE, mapping_ok |-> TRUE]

\* main() up to the loop: the sys.exit(1) paths, and os.makedirs raising
Startup ==
    IF env.argv_ok /\ env.root_is_dir /\ env.tools_ok /\ env.dirs_ok
    THEN pc' = "main_loop" /\ UNCHANGED exit_code
    ELSE pc' = "exited" /\ exit_code' = ExitError

\* main() after the loop: open(header_file_path, 'w') and
\* open(mapping_file, 'w') raise when the file cannot be created
WriteFiles ==
    IF ~env.header_ok
    THEN /\ pc' = "crashed" /\ exit_code' = ExitError
         /\ UNCHANGED <<header_file, mapping_file>>
    ELSE /\ header_file' = [written |-> TRUE, arrays |-> header_content,
                            table |-> EmittedTable(processed_icons)]
         /\ IF ~env.mapping_ok
            THEN /\ pc' = "crashed" /\ exit_code' = ExitError
                 /\ UNCHANGED mapping_file
            ELSE /\ mapping_file' = url_mapping_of(converter, processed_icons)
                 /\ pc' = "done" /\ exit_code' = ExitOk

(***************************************************************************)
(* The emitted accessors getAnimationFrame / getAnimationFrameCount (C     *)
(* code in the header text).  arrays are the frame pointer arrays the      *)
(* header declares: [variable_name, frames].                               *)
(***************************************************************************)
\* "#define WEATHER_CLEAR_FRAME_COUNT 10" and its four siblings
WEATHER_FRAME_COUNT == 10

\* the array each case of the switch indexes
case_array(weatherType) ==
    CASE weatherType = 0 -> "sunny_dayFrames"
      [] weatherType = 1 -> "cloudyFrames"
      [] weatherType = 2 -> "rainyFrames"
      [] weatherType = 3 -> "snowyFrames"
      [] weatherType = 4 -> "lightningFrames"
      [] OTHER -> ""

AccessorArrays == {case_array(t) : t \in 0..4}

Declared(arrays) == {arrays[k].variable_name : k \in 1..Len(arrays)}

\* the declaration of the array called name (the header declares each once)
declaration(arrays, name) ==
    arrays[CHOOSE k \in 1..Len(arrays) : arrays[k].variable_name = name]

\* the element access getAnimationFrame performs: [array, index]
frame_access(weatherType, frameIndex) ==
    IF weatherType \in 0..4 /\ frameIndex < WEATHER_FRAME_COUNT
    THEN [array |-> case_array(weatherType), index |-> frameIndex]
    ELSE [array |-> "cloudyFrames", index |-> 0]

\* a pointer read from beyond the end of an array
Garbage == 0 - 1

\* what an element access may yield: the frame stored there, or for an
\* index at or beyond the declared length whatever lies behind the array
access_values(arrays, access) ==
    IF access.index < Len(declaration(arrays, access.array).frames)
    THEN {declaration(arrays, access.array).frames[access.index + 1]}
    ELSE {Garbage, 0}

\* getAnimationFrameCount
getAnimationFrameCount(weatherType) == WEATHER_FRAME_COUNT

(***************************************************************************)
(* update_weatheranimations.update_impl_file.  The content of              *)
(* WeatherAnimations.cpp is a sequence of pieces of text: the text         *)
(* "void WeatherAnimations::initDisplay()", a closing brace, or any other  *)
(* text, which holds neither.                                              *)
(***************************************************************************)
initDisplay == "void WeatherAnimations::initDisplay()"
set_animation_method == "bool WeatherAnimations::setAnimationFromHACondition(...) {...}"
updated_fetch_weather == "bool WeatherAnimations::fetchWeatherData() {...}"

\* str.split(sep) from piece k on; current is the part being collected
RECURSIVE split_from(_, _, _, _, _)
split_from(content, sep, k, current, parts) ==
    IF k > Len(content) THEN Append(parts, current)
    ELSE IF content[k] = sep
         THEN split_from(content, sep, k + 1, <<>>, Append(parts, current))
         ELSE split_from(content, sep, k + 1, Append(current, content[k]), parts)

split(content, sep) == split_from(content, sep, 1, <<>>, <<>>)

\* "".join(parts[from:]), from being a Python index
RECURSIVE join_from(_, _)
join_from(parts, from) ==
    IF from + 1 > Len(parts) THEN <<>>
    ELSE parts[from + 1] \o join_from(parts, from + 1)

\* modified_content as the lines 237-242 build it
modified_content(parts, method_parts) ==
    parts[1] \o <<initDisplay>> \o method_parts[1] \o <<"}", "\n\n">>
        \o <<set_animation_method, "\n\n", updated_fetch_weather>>
        \o join_from(method_parts, 2)

\* update_impl_file: [returned, file], file being WeatherAnimations.cpp
\* after the call
update_impl_file(file) ==
    IF ~file.exists THEN [returned |-> FALSE, file |-> file]
    ELSE IF \E k \in 1..Len(file.content) : file.content[k] = initDisplay
    THEN IF Len(split(file.content, initDisplay)) = 2
         THEN [returned |-> TRUE,
               file |-> [exists |-> TRUE,
                         content |-> modified_content(
                             split(file.content, initDisplay),
                             split(split(file.content, initDisplay)[2], "}"))]]
         ELSE [returned |-> FALSE, file |-> file]
    ELSE [returned |-> FALSE, file |-> file]

(***************************************************************************)
(* Idle values of the variables a specification does not use.              *)
(***************************************************************************)
NoRequest == [condition |-> "", isDay |-> TRUE]
NoTiming == [raised |-> FALSE, value |-> 0]

PipelineIdle ==
    /\ converter = "animated" /\ svg_dir = <<>> /\ cidx = 1 /\ vidx = 1
    /\ processed_icons = <<>> /\ request = NoRequest /\ found = NotFound

TimingIdle == svg_source = PlainSvg /\ timing = NoTiming

SamplerIdle ==
    /\ extract_args = [frame_count |-> FRAME_COUNT, fault |-> NoFault]
    /\ extracted = NoExtract

NoImage == [mode |-> "none", width |-> 0, height |-> 0, bg |-> 0, px |-> <<>>]

NoRepack == [frame |-> 0, bitmap_data |-> <<>>]

PackerIdle ==
    /\ img = NoImage /\ resized = NoImage /\ steps = <<>>
    /\ mono_frames = <<>> /\ bitmaps = <<>> /\ repacked = NoRepack

NoCall == [weatherType |-> 0, frameIndex |-> 0]
NoResult == [called |-> FALSE, array |-> "", index |-> 0, frame |-> 0, count |-> 0]

AccessorIdle == accessor_call = NoCall /\ accessor_result = NoResult

BuildIdle ==
    /\ env = EnvOk /\ header_content = <<>> /\ header_file = NoHeader
    /\ mapping_file = NoMapping /\ exit_code = Running /\ trace = <<>>
    /\ AccessorIdle

NoCpp == [exists |-> FALSE, content |-> <<>>]
NoUpdate == [called |-> FALSE, returned |-> FALSE, original |-> <<>>]
NoSlot == [byte_index |-> 0, bit_position |-> 0, packed |-> FALSE]
NoStatic == [frame |-> 0, bitmap_data |-> <<>>]

\* the variables of the integration helper and of the packers' comparison
OthersIdle ==
    /\ cpp_file = NoCpp /\ impl_result = NoUpdate
    /\ pixel = <<0, 0>> /\ slot = NoSlot
    /\ static_bitmap = NoStatic

(***************************************************************************)
(* SpecResolver: one run of either converter over a source directory that  *)
(* holds at most MaxSources icons, then one call of the emitted resolver.  *)
(***************************************************************************)
\* a condition string no table row carries
UnknownCondition == "tornado"

Requests == Conditions \cup {UnknownCondition}

SourceDirs ==
    {[n \in S |-> PlainSvg] : S \in {T \in SUBSET IconNames : Cardinality(T) <= MaxSources}}

InitResolver ==
    /\ pc = "main_loop"
    /\ converter \in {"animated", "static"}
    /\ svg_dir \in SourceDirs
    /\ cidx = 1 /\ vidx = 1
    /\ processed_icons = <<>>
    /\ request = NoRequest /\ found = NotFound
    /\ TimingIdle /\ SamplerIdle /\ PackerIdle /\ BuildIdle
    /\ OthersIdle

MainLoopAnimated ==
    /\ pc = "main_loop" /\ converter = "animated" /\ ~LoopDone
    /\ AnimatedIcon(NoFault)
    /\ UNCHANGED <<converter, svg_dir, request, found, timingVars, samplerVars, packerVars>>
    /\ UNCHANGED <<env, header_file, mapping_file, accessor_call, accessor_result>>
    /\ UNCHANGED <<updaterVars, bitmapVars, static_bitmap>>

MainLoopStatic ==
    /\ pc = "main_loop" /\ converter = "static" /\ ~LoopDone
    /\ StaticIcon
    /\ UNCHANGED <<converter, svg_dir, request, found, timingVars, samplerVars, packerVars>>
    /\ UNCHANGED <<env, header_file, mapping_file, accessor_call, accessor_result>>
    /\ UNCHANGED <<updaterVars, bitmapVars, static_bitmap>>

\* after the loop: the header (table, end marker, resolver) is written
WriteArtifacts ==
    /\ pc = "main_loop" /\ LoopDone
    /\ WriteFiles
    /\ UNCHANGED <<pipelineVars, timingVars, samplerVars, packerVars>>
    /\ UNCHANGED <<env, header_content, trace, accessor_call, accessor_result>>
    /\ UNCHANGED <<updaterVars, bitmapVars, static_bitmap>>

\* the device calls findAnimatedWeatherIcon / findWeatherIcon on the table
Resolve ==
    /\ pc = "done"
    /\ \E condition \in Requests, isDay \in BOOLEAN :
          /\ request' = [condition |-> condition, isDay |-> isDay]
          /\ found' = findIcon(EmittedTable(processed_icons), condition, isDay)
    /\ pc' = "resolved"
    /\ UNCHANGED <<converter, svg_dir, cidx, vidx, processed_icons, timingVars, samplerVars, packerVars>>
    /\ UNCHANGED buildVars
    /\ UNCHANGED <<updaterVars, bitmapVars, static_bitmap>>

NextResolver == MainLoopAnimated \/ MainLoopStatic \/ WriteArtifacts \/ Resolve

SpecResolver == InitResolver /\ [][NextResolver]_vars

(***************************************************************************)
(* Condition Resolver properties.                                          *)
(***************************************************************************)
RequestedVariant == IF request.isDay THEN "day" ELSE "night"

RowsOfCondition(c) ==
    {k \in 1..Len(processed_icons) : processed_icons[k].condition = c}

Tier1 ==
    {k \in RowsOfCondition(request.condition) :
        processed_icons[k].variant \in {"", RequestedVariant}}
Tier2 == RowsOfCondition(request.condition)
Tier3 == RowsOfCondition("cloudy")

Least(S) == CHOOSE x \in S : \A y \in S : x <= y

\* the row (1-based) the four-tier cascade of the design selects
CascadeRow ==
    IF Tier1 # {} THEN Least(Tier1)
    ELSE IF Tier2 # {} THEN Least(Tier2)
    ELSE IF Tier3 # {} THEN Least(Tier3)
    ELSE 1

\* C1: on a non-empty table the resolver returns one of the table's real
\* records for every condition string and both values of isDay: never
\* "not found", never the end marker row.
C1_ResolverReturnsRealRecord ==
    (pc = "resolved" /\ Len(processed_icons) > 0)
        => found \in 0..(Len(processed_icons) - 1)

\* C1 witness: an unknown condition on a table without "cloudy" still gets
\* the first record.
C1_Witness ==
    /\ pc = "resolved" /\ Len(processed_icons) > 0
    /\ request.condition = UnknownCondition
    /\ Tier3 = {}
    /\ found = 0

\* C2: a record whose condition is the requested one and whose variant is
\* empty or the variant isDay selects is the record returned.
C2_ExactMatchReturned ==
    pc = "resolved" =>
        \A k \in 1..Len(processed_icons) :
            (/\ processed_icons[k].condition = request.condition
             /\ processed_icons[k].variant \in {"", RequestedVariant})
                => found = k - 1

\* C2 witness: "sunny" at night is answered with the sunny/night record
\* although the sunny/day record stands before it.
C2_Witness ==
    /\ pc = "resolved"
    /\ request = [condition |-> "sunny", isDay |-> FALSE]
    /\ found > 0
    /\ processed_icons[found + 1].condition = "sunny"
    /\ processed_icons[found + 1].variant = "night"
    /\ processed_icons[found].condition = "sunny"
    /\ processed_icons[found].variant = "day"

\* C3: on a non-empty table the result is the first row of the lowest
\* non-empty tier; an unknown condition gets the first "cloudy" row, or the
\* first row when there is none; a known condition whose requested variant
\* is absent gets the first row of that condition, not "cloudy".
C3_ResultIsCascade ==
    (pc = "resolved" /\ Len(processed_icons) > 0) =>
        /\ found = CascadeRow - 1
        /\ (request.condition = UnknownCondition /\ Tier3 # {})
              => found = Least(Tier3) - 1
        /\ (request.condition = UnknownCondition /\ Tier3 = {}) => found = 0
        /\ (Tier1 = {} /\ Tier2 # {}) => found = Least(Tier2) - 1

\* C3 witness: only sunny/day exists next to "cloudy"; "sunny" at night
\* resolves to sunny/day, which stands after the "cloudy" row.
C3_Witness ==
    /\ pc = "resolved"
    /\ request = [condition |-> "sunny", isDay |-> FALSE]
    /\ Tier1 = {} /\ Tier3 # {}
    /\ found > Least(Tier3) - 1
    /\ processed_icons[found + 1].condition = "sunny"
    /\ processed_icons[found + 1].variant = "day"

(***************************************************************************)
(* SpecBuilder: one whole run of either converter, from the command line   *)
(* to the exit status, in every environment and with the collaborators     *)
(* failing per icon, then one call of the emitted accessors.               *)
(***************************************************************************)
\* the sources the accessors' five arrays come from
AccessorIcons == {"clear-day", "cloudy", "rain", "snow", "thunderstorms"}

\* a source bound twice ("clear-night"), one bound once, the last one bound
FewIcons == {"clear-night", "clear-day", "extreme"}

AnimateSeconds(d) ==
    [readable |-> TRUE, elems |-> <<[tag |-> "animate", has_dur |-> TRUE, dur |-> d]>>]

\* sources of cycle 2000 ms (no declaration) and 5000 ms
BuildContents == {PlainSvg, AnimateSeconds(<<"5", "s">>)}

BuildDirs ==
    {[n \in S |-> c] : S \in (SUBSET FewIcons) \cup {AccessorIcons}, c \in BuildContents}

AllFrames == 0..(FRAME_COUNT - 1)

\* frames 3 and 9 not saved: 8 frames
TwoFramesLost == [NoFault EXCEPT !.saved = AllFrames \ {3, 9}]

\* and the first of the 8 not converted: 7 frames
ThreeFramesLost == [TwoFramesLost EXCEPT !.mono_ok = AllFrames \ {0}]

\* the second monochrome file cannot be opened by frames_to_c_arrays
OneFrameUnpackable == [NoFault EXCEPT !.pack_bad = {1}]

CoreFaults == {NoFault, TwoFramesLost, ThreeFramesLost, OneFrameUnpackable}

OtherFaults ==
    {[NoFault EXCEPT !.setup_ok = FALSE],
     [NoFault EXCEPT !.base_ok = FALSE],
     [NoFault EXCEPT !.saved = {}],
     [NoFault EXCEPT !.mono_setup_ok = FALSE],
     [NoFault EXCEPT !.mono_ok = {}],
     [NoFault EXCEPT !.saved = {4}, !.pack_bad = {0}]}

\* what may go wrong in one pass: every fault in a small directory, the
\* core ones in the large one
BuildFaults ==
    IF DOMAIN svg_dir \subseteq FewIcons THEN CoreFaults \cup OtherFaults ELSE CoreFaults

BuildEnvs ==
    {EnvOk} \cup {[EnvOk EXCEPT ![f] = FALSE] : f \in DOMAIN EnvOk}

InitBuilder ==
    /\ pc = "start"
    /\ converter \in {"animated", "static"}
    /\ svg_dir \in BuildDirs
    /\ env \in BuildEnvs
    /\ cidx = 1 /\ vidx = 1
    /\ processed_icons = <<>>
    /\ request = NoRequest /\ found = NotFound
    /\ header_content = <<>> /\ header_file = NoHeader /\ mapping_file = NoMapping
    /\ exit_code = Running /\ trace = <<>>
    /\ AccessorIdle
    /\ TimingIdle /\ SamplerIdle /\ PackerIdle
    /\ OthersIdle

\* main() from its first line to the loop
Start ==
    /\ pc = "start"
    /\ Startup
    /\ UNCHANGED <<pipelineVars, timingVars, samplerVars, packerVars>>
    /\ UNCHANGED <<env, header_content, header_file, mapping_file, trace,
                   accessor_call, accessor_result>>
    /\ UNCHANGED <<updaterVars, bitmapVars, static_bitmap>>

\* one pass of the animated converter's loop, the collaborators failing or not
BuildAnimated ==
    /\ pc = "main_loop" /\ converter = "animated" /\ ~LoopDone
    /\ \E fault \in BuildFaults : AnimatedIcon(fault)
    /\ UNCHANGED <<converter, svg_dir, request, found, timingVars, samplerVars, packerVars>>
    /\ UNCHANGED <<env, header_file, mapping_file, accessor_call, accessor_result>>
    /\ UNCHANGED <<updaterVars, bitmapVars, static_bitmap>>

\* the device calls getAnimationFrame and getAnimationFrameCount of a
\* header that compiles: every array the accessor names is declared
CallAccessor ==
    /\ pc = "done" /\ converter = "animated"
    /\ AccessorArrays \subseteq Declared(header_file.arrays)
    /\ \E weatherType \in 0..5, frameIndex \in {0, 6, 7, 8, 9, 10, 11} :
          /\ accessor_call' = [weatherType |-> weatherType, frameIndex |-> frameIndex]
          /\ \E v \in access_values(header_file.arrays,
                                    frame_access(weatherType, frameIndex)) :
                accessor_result' =
                    [called |-> TRUE,
                     array |-> frame_access(weatherType, frameIndex).array,
                     index |-> frame_access(weatherType, frameIndex).index,
                     frame |-> v,
                     count |-> getAnimationFrameCount(weatherType)]
    /\ pc' = "called"
    /\ UNCHANGED <<pipelineVars, timingVars, samplerVars, packerVars>>
    /\ UNCHANGED <<env, header_content, header_file, mapping_file, exit_code, trace>>
    /\ UNCHANGED <<updaterVars, bitmapVars, static_bitmap>>

\* one pass of the static converter's loop, png_to_c_array failing or not;
\* for a missing source nothing is converted
BuildStatic ==
    /\ pc = "main_loop" /\ converter = "static" /\ ~LoopDone
    /\ \E c_array_ok \in IF CurrentVariant.icon_filename \in DOMAIN svg_dir
                         THEN BOOLEAN ELSE {TRUE} :
          StaticIconConverted(c_array_ok)
    /\ UNCHANGED <<converter, svg_dir, request, found, timingVars, samplerVars, packerVars>>
    /\ UNCHANGED <<env, header_file, mapping_file, accessor_call, accessor_result>>
    /\ UNCHANGED <<updaterVars, bitmapVars, static_bitmap>>

NextBuilder ==
    Start \/ BuildAnimated \/ BuildStatic \/ WriteArtifacts \/ CallAccessor

SpecBuilder == InitBuilder /\ [][NextBuilder]_vars

(***************************************************************************)
(* Asset Table Builder properties.                                         *)
(***************************************************************************)
\* the canonical enumeration: positions <<c, v>> of the two nested loops
CanonicalPairs ==
    {<<c, v>> : c \in 1..Len(WEATHER_CONDITIONS), v \in 1..2} \cap
    {p \in (1..Len(WEATHER_CONDITIONS)) \X (1..2) :
        p[2] <= Len(variants(WEATHER_CONDITIONS[p[1]]))}

PairCondition(p) == WEATHER_CONDITIONS[p[1]].condition
PairVariant(p) == variants(WEATHER_CONDITIONS[p[1]])[p[2]].variant_suffix
PairSource(p) == variants(WEATHER_CONDITIONS[p[1]])[p[2]].icon_filename
PairKey(p) == condition_full(PairCondition(p), PairVariant(p))

\* the rows of the written table for one (condition, variant)
RowsOfPair(p) ==
    {k \in 1..(Len(header_file.table) - 1) :
        /\ header_file.table[k].condition = PairCondition(p)
        /\ header_file.table[k].variant = PairVariant(p)}

\* the passes of the loop over one (condition, variant)
PassesOfPair(p) ==
    {k \in 1..Len(trace) :
        trace[k].condition = PairCondition(p) /\ trace[k].variant = PairVariant(p)}

Before(p, q) == p[1] < q[1] \/ (p[1] = q[1] /\ p[2] < q[2])

\* C12: after a run, a (condition, variant) whose source file does not
\* exist has no row in the table and no key in the manifest, and every
\* (condition, variant) whose source exists - those after a missing one
\* included - has been processed and has its row and its manifest key.
C12_MissingSourceSkipped ==
    pc = "done" =>
        \A p \in CanonicalPairs :
            IF PairSource(p) \notin DOMAIN svg_dir
            THEN /\ RowsOfPair(p) = {}
                 /\ PairKey(p) \notin DOMAIN mapping_file.tft
                 /\ PairKey(p) \notin DOMAIN mapping_file.oled
            ELSE /\ PassesOfPair(p) # {}
                 /\ RowsOfPair(p) # {}
                 /\ PairKey(p) \in DOMAIN mapping_file.tft
                 /\ PairKey(p) \in DOMAIN mapping_file.oled

\* a finished run in which a missing source precedes a recorded one
C12_Witness ==
    /\ pc = "done"
    /\ \E p, q \in CanonicalPairs :
          /\ Before(p, q)
          /\ PairSource(p) \notin DOMAIN svg_dir
          /\ PairSource(q) \in DOMAIN svg_dir
          /\ RowsOfPair(q) # {}

\* the cycle duration the sources of a run declare
CycleDurationMs(icon_filename) ==
    IF svg_dir[icon_filename] = PlainSvg THEN 2000 ELSE 5000

\* C13: every record of the animated table carries the integer quotient of
\* its source's cycle duration by its own frame count: d * n <= cycle <
\* (d + 1) * n; 2000 ms over 10 frames is 200 and over 8 frames is 250.
C13_DelayFromActualCount ==
    converter = "animated" =>
        \A k \in 1..Len(processed_icons) :
            LET icon == processed_icons[k]
                cycle == CycleDurationMs(icon.icon_filename)
                n == icon.oled_frame_count
            IN /\ n > 0
               /\ icon.frame_delay * n <= cycle
               /\ cycle < (icon.frame_delay + 1) * n
               /\ (cycle = 2000 /\ n = 10) => icon.frame_delay = 200
               /\ (cycle = 2000 /\ n = 8) => icon.frame_delay = 250

\* a record of 8 frames out of the 10 requested, 250 ms apart, and one of
\* 7 frames whose division leaves a remainder
C13_Witness ==
    /\ converter = "animated"
    /\ \E k \in 1..Len(processed_icons) :
          /\ processed_icons[k].oled_frame_count = 8
          /\ processed_icons[k].frame_delay = 250
    /\ \E k \in 1..Len(processed_icons) :
          /\ processed_icons[k].oled_frame_count = 7
          /\ processed_icons[k].frame_delay = 285

\* C14: in every run, whichever stage fails, the frame delay is never
\* computed with a zero divisor (the division is reached exactly by the
\* passes that have monochrome frames, and its divisor is the frame count
\* frames_to_c_arrays returned), a pass with zero produced frames leaves no
\* record, and no record has frame count 0.
C14_NoZeroDivisor ==
    /\ \A k \in 1..Len(trace) :
          /\ Len(trace[k].monochrome_paths) > 0 => trace[k].frame_count # 0
          /\ trace[k].frame_count = 0 => trace[k].outcome # "record"
    /\ \A k \in 1..Len(processed_icons) : processed_icons[k].oled_frame_count # 0

\* the positions (1-based) of a pass's monochrome files that
\* frames_to_c_arrays can read: with the files before them in the two
\* loops, the frames that succeeded at every stage
PackablePositions(t) ==
    {k \in 1..Len(t.monochrome_paths) : (k - 1) \notin t.fault.pack_bad}

SucceededFrames(t) == {t.monochrome_paths[k].index : k \in PackablePositions(t)}

\* the frame pointer arrays declared for the (condition, variant) of a pass
ArraysOfPass(t) ==
    {a \in 1..Len(header_content) :
        header_content[a].variable_name =
            var_name(condition_full(t.condition, t.variant)) \o "Frames"}

\* C15: a pass in which some frame failed at some stage and at least one
\* frame succeeded at every stage ends with a record whose frame count is
\* the number of frames that succeeded, and with a frame pointer array
\* holding exactly those frames in increasing frame index.
C15_ReducedFrameSet ==
    \A k \in 1..Len(trace) :
        LET t == trace[k]
            n == Cardinality(SucceededFrames(t))
        IN (converter = "animated" /\ t.outcome # "missing" /\ 0 < n /\ n < FRAME_COUNT) =>
              /\ t.outcome = "record"
              /\ t.frame_count = n
              /\ \E a \in ArraysOfPass(t) :
                    LET frames == header_content[a].frames
                    IN /\ Len(frames) = n
                       /\ {frames[j] : j \in 1..n} = SucceededFrames(t)
                       /\ \A i, j \in 1..n : i < j => frames[i] < frames[j]

\* C16: a run in a working environment is never ended by what happens to
\* one icon: the process does not die, and when it has ended every
\* (condition, variant) whose source exists has had its pass, the header
\* and the manifest are written and the exit status is 0.  A non-zero exit
\* status comes only from the environment: the command line or root path,
\* a missing tool, or an output location that cannot be created.
C16_RunCompletes ==
    /\ exit_code = ExitError => env # EnvOk
    /\ env = EnvOk =>
          /\ pc # "crashed"
          /\ \A k \in 1..Len(trace) : trace[k].outcome # "ZeroDivisionError"
          /\ pc \in {"done", "called"} =>
                /\ exit_code = ExitOk
                /\ header_file.written /\ mapping_file.written
                /\ \A p \in CanonicalPairs :
                      PairSource(p) \in DOMAIN svg_dir => PassesOfPair(p) # {}

\* the key the manifest is to carry for a record
RecordKey(icon) ==
    IF icon.variant = "" THEN icon.condition
    ELSE icon.condition \o "-" \o icon.variant

\* frame indices 0..10 as three digits
ThreeDigits ==
    <<"000", "001", "002", "003", "004", "005", "006", "007", "008", "009", "010">>

ActualFrameCount(weatherType) ==
    Len(declaration(header_file.arrays,
                    IF weatherType \in 0..4 THEN case_array(weatherType)
                    ELSE "cloudyFrames").frames)

\* C18: getAnimationFrame(T, i) yields frame i of type T's icon only when
\* i is less than the number of frames emitted for it, and frame 0 of
\* cloudy otherwise; the array it indexes is never indexed at or beyond
\* its declared length; getAnimationFrameCount(T) is the number of frames
\* emitted for T's icon, or cloudy's for an unrecognized T.
C18_AccessorBoundsChecked ==
    accessor_result.called =>
        LET T == accessor_call.weatherType
            i == accessor_call.frameIndex
            arrays == header_file.arrays
        IN /\ accessor_result.index <
                  Len(declaration(arrays, accessor_result.array).frames)
           /\ IF T \in 0..4 /\ i < ActualFrameCount(T)
              THEN /\ accessor_result.array = case_array(T)
                   /\ accessor_result.index = i
                   /\ accessor_result.frame =
                          declaration(arrays, case_array(T)).frames[i + 1]
              ELSE /\ accessor_result.array = "cloudyFrames"
                   /\ accessor_result.index = 0
                   /\ accessor_result.frame =
                          declaration(arrays, "cloudyFrames").frames[1]
           /\ accessor_result.count = ActualFrameCount(T)

\* the place of a record's (condition, variant) in the canonical
\* enumeration: conditions in WEATHER_CONDITIONS order, "day" before "night"
ConditionIndex(condition) ==
    CHOOSE c \in 1..Len(WEATHER_CONDITIONS) : WEATHER_CONDITIONS[c].condition = condition

VariantRank(variant) ==
    CASE variant = "" -> 0
      [] variant = "day" -> 1
      [] variant = "night" -> 2

CanonicalRank(icon) == 3 * ConditionIndex(icon.condition) + VariantRank(icon.variant)

\* C20: at any point of any run the records are in strictly increasing
\* canonical place - conditions in WEATHER_CONDITIONS order, day before
\* night, no (condition, variant) twice - and a record's variant is "day"
\* or "night" exactly for partlycloudy and sunny and empty for the 13
\* other conditions.
C20_CanonicalSubsequence ==
    /\ Cardinality(Conditions \ {"partlycloudy", "sunny"}) = 13
    /\ \A k \in 1..Len(processed_icons) :
          /\ processed_icons[k].condition \in Conditions
          /\ processed_icons[k].variant \in {"", "day", "night"}
          /\ processed_icons[k].variant \in {"day", "night"} <=>
                 processed_icons[k].condition \in {"partlycloudy", "sunny"}
    /\ \A j, k \in 1..Len(processed_icons) :
          j < k => CanonicalRank(processed_icons[j]) < CanonicalRank(processed_icons[k])

\* records of a plain condition, of sunny by day and of sunny by night
C20_Witness ==
    \E i, j, k \in 1..Len(processed_icons) :
        /\ i < j /\ j < k
        /\ processed_icons[i].variant = ""
        /\ processed_icons[j].condition = "sunny" /\ processed_icons[j].variant = "day"
        /\ processed_icons[k].condition = "sunny" /\ processed_icons[k].variant = "night"

\* the 17 names with "_" for every character that is no letter or digit,
\* in lower case
SanitizedName(key) ==
    CASE key = "clear-night" -> "clear_night"
      [] key = "cloudy" -> "cloudy"
      [] key = "fog" -> "fog"
      [] key = "hail" -> "hail"
      [] key = "lightning" -> "lightning"
      [] key = "lightning-rainy" -> "lightning_rainy"
      [] key = "partlycloudy-day" -> "partlycloudy_day"
      [] key = "partlycloudy-night" -> "partlycloudy_night"
      [] key = "pouring" -> "pouring"
      [] key = "rainy" -> "rainy"
      [] key = "snowy" -> "snowy"
      [] key = "snowy-rainy" -> "snowy_rainy"
      [] key = "sunny-day" -> "sunny_day"
      [] key = "sunny-night" -> "sunny_night"
      [] key = "windy" -> "windy"
      [] key = "windy-variant" -> "windy_variant"
      [] key = "exceptional" -> "exceptional"

\* the pointer arrays the written header declares under a name
ArraysNamed(name) ==
    {a \in 1..Len(header_file.arrays) : header_file.arrays[a].variable_name = name}

\* C21: in the header the animated converter writes, the frames reference
\* of every table row is the record's sanitized "condition" or
\* "condition-variant" name followed by "Frames", and exactly one pointer
\* array is declared under that name, of as many frames as the row's frame
\* count.
C21_IdentifierLinksRowToArray ==
    (header_file.written /\ converter = "animated") =>
        \A k \in 1..(Len(header_file.table) - 1) :
            LET row == header_file.table[k]
            IN /\ row.variable_name = SanitizedName(RecordKey(row)) \o "Frames"
               /\ Cardinality(ArraysNamed(row.variable_name)) = 1
               /\ \A a \in ArraysNamed(row.variable_name) :
                     Len(header_file.arrays[a].frames) = row.oled_frame_count

\* a written header with a row for sunny-day of 8 frames linked to
\* sunny_dayFrames, and a row for a name with nothing to replace
C21_Witness ==
    /\ header_file.written /\ converter = "animated"
    /\ \E k \in 1..(Len(header_file.table) - 1) :
          /\ header_file.table[k].condition = "sunny"
          /\ header_file.table[k].variant = "day"
          /\ header_file.table[k].variable_name = "sunny_dayFrames"
          /\ header_file.table[k].oled_frame_count = 8
          /\ \E a \in ArraysNamed("sunny_dayFrames") :
                Len(header_file.arrays[a].frames) = 8
    /\ \E k \in 1..(Len(header_file.table) - 1) :
          header_file.table[k].variable_name = "cloudyFrames"

\* the URL under which the manifest would list a monochrome frame file
\* "<key>_frame_<NNN>.png" of the OLED output directory
UrlOfFrameFile(key, file_index) ==
    url_base \o "/oled_animated/" \o key \o "_frame_" \o ThreeDigits[file_index + 1] \o ".png"

\* C25: in a written animated manifest, for every pass that ended in a
\* record, the URLs listed under the record's key are exactly the URLs of
\* the monochrome frame files convert_frames_to_monochrome wrote in that
\* pass: none listed without its file, no file unlisted.
C25_ManifestNamesWrittenFiles ==
    (mapping_file.written /\ converter = "animated") =>
        \A k \in 1..Len(trace) :
            trace[k].outcome = "record" =>
                LET key == RecordKey(trace[k])
                    files == trace[k].monochrome_paths
                    listed == mapping_file.oled[key]
                IN {listed[j] : j \in 1..Len(listed)} =
                       {UrlOfFrameFile(key, files[j].file_index) : j \in 1..Len(files)}

\* C26: in every written header, every pointer array a table row refers
\* to is declared in that header, and so is every pointer array the
\* animated header's getAnimationFrame refers to, whichever icons were
\* processed and whichever conversion failed.
C26_ReferencesDeclared ==
    header_file.written =>
        /\ \A k \in 1..(Len(header_file.table) - 1) :
              header_file.table[k].variable_name \in Declared(header_file.arrays)
        /\ converter = "animated" => AccessorArrays \subseteq Declared(header_file.arrays)

\* C27: a run that processes no icon still ends normally with a table of
\* the sentinel alone, and the resolver then returns the sentinel (null
\* condition, null variant, zero frames) for every condition and isDay; in
\* every written table the sentinel is the last row and the only row with
\* a null condition, and every call of the resolver returns a row of the
\* table.
C27_EmptyTableResolves ==
    /\ (pc \in {"done", "resolved"} /\ processed_icons = <<>>) =>
          /\ exit_code = ExitOk
          /\ header_file.written
          /\ Len(header_file.table) = 1
    /\ header_file.written =>
          /\ header_file.table[Len(header_file.table)].condition = NULL
          /\ \A k \in 1..(Len(header_file.table) - 1) :
                header_file.table[k].condition # NULL
    /\ pc = "resolved" =>
          /\ found \in 0..(Len(header_file.table) - 1)
          /\ processed_icons = <<>> =>
                /\ found = 0
                /\ header_file.table[found + 1].condition = NULL
                /\ header_file.table[found + 1].variant = NULL
                /\ header_file.table[found + 1].oled_frame_count = 0

\* the resolver called for "rainy" by night on the table of a run that
\* found no source
C27_Witness ==
    /\ pc = "resolved" /\ processed_icons = <<>> /\ svg_dir = <<>>
    /\ request = [condition |-> "rainy", isDay |-> FALSE]
    /\ found = 0 /\ header_file.table = <<EndMarker>>

\* the (condition, variant) of a canonical pair as a record has them
PairRecord(p) == [condition |-> PairCondition(p), variant |-> PairVariant(p)]

\* C28: the 17 canonical (condition, variant) pairs have pairwise distinct
\* sanitized identifiers and pairwise distinct manifest keys (looked at
\* when a run starts); hence at any time no two declared arrays and no two
\* records share a name, and a written manifest has in each section as
\* many keys as the table has records.
C28_NamesDistinct ==
    /\ pc = "start" =>
          /\ Cardinality(CanonicalPairs) = 17
          /\ \A p, q \in CanonicalPairs :
                p # q => /\ var_name(PairKey(p)) # var_name(PairKey(q))
                         /\ manifest_key(PairRecord(p)) # manifest_key(PairRecord(q))
    /\ \A j, k \in 1..Len(header_content) :
          j # k => header_content[j].variable_name # header_content[k].variable_name
    /\ \A j, k \in 1..Len(processed_icons) :
          j # k => processed_icons[j].variable_name # processed_icons[k].variable_name
    /\ mapping_file.written =>
          /\ Cardinality(DOMAIN mapping_file.tft) = Len(processed_icons)
          /\ Cardinality(DOMAIN mapping_file.oled) = Len(processed_icons)
          /\ Len(header_file.table) - 1 = Len(processed_icons)

\* a written manifest of three keys, two of them of the same condition
C28_Witness ==
    /\ mapping_file.written
    /\ Len(processed_icons) = 3
    /\ {"sunny-day", "sunny-night"} \subseteq DOMAIN mapping_file.oled
    /\ Cardinality(DOMAIN mapping_file.tft) = 3

(***************************************************************************)
(* SpecUpdater: update_impl_file on one WeatherAnimations.cpp of at most   *)
(* MaxPieces pieces, or on none.                                           *)
(***************************************************************************)
Pieces == {initDisplay, "{", "}", "text"}

RECURSIVE ContentsOfLength(_)
ContentsOfLength(n) ==
    IF n = 0 THEN {<<>>}
    ELSE {Append(c, t) : c \in ContentsOfLength(n - 1), t \in Pieces}

CppFiles ==
    {NoCpp} \cup
    {[exists |-> TRUE, content |-> c] : c \in UNION {ContentsOfLength(n) : n \in 0..MaxPieces}}

InitUpdater ==
    /\ pc = "impl_call"
    /\ cpp_file \in CppFiles
    /\ impl_result = NoUpdate
    /\ pixel = <<0, 0>> /\ slot = NoSlot /\ static_bitmap = NoStatic
    /\ PipelineIdle /\ TimingIdle /\ SamplerIdle /\ PackerIdle /\ BuildIdle

UpdateImplFile ==
    /\ pc = "impl_call"
    /\ cpp_file' = update_impl_file(cpp_file).file
    /\ impl_result' = [called |-> TRUE,
                       returned |-> update_impl_file(cpp_file).returned,
                       original |-> cpp_file.content]
    /\ pc' = "impl_done"
    /\ UNCHANGED <<pipelineVars, timingVars, samplerVars, packerVars, buildVars,
                   bitmapVars, static_bitmap>>

NextUpdater == UpdateImplFile

SpecUpdater == InitUpdater /\ [][NextUpdater]_vars

\* the pieces update_impl_file puts in
InsertedPieces == <<"\n\n", set_animation_method, "\n\n", updated_fetch_weather>>

\* the place of the first closing brace after piece k
FirstBraceAfter(content, k) ==
    CHOOSE e \in (k + 1)..Len(content) :
        /\ content[e] = "}"
        /\ \A j \in (k + 1)..(e - 1) : content[j] # "}"

\* C22: when update_impl_file has rewritten a file that holds the
\* initDisplay method (its heading, an opening brace and later a closing
\* one), the file is the original content up to and including the first
\* closing brace after the heading, then the new methods, then the whole
\* rest of the original content, unchanged and in order.
C22_OnlyInserts ==
    (pc = "impl_done" /\ impl_result.returned) =>
        LET original == impl_result.original
            m == CHOOSE k \in 1..Len(original) : original[k] = initDisplay
        IN (/\ m < Len(original) /\ original[m + 1] = "{"
            /\ \E e \in (m + 2)..Len(original) : original[e] = "}") =>
              cpp_file.content =
                  SubSeq(original, 1, FirstBraceAfter(original, m))
                      \o InsertedPieces
                      \o SubSeq(original, FirstBraceAfter(original, m) + 1, Len(original))

(***************************************************************************)
(* SpecBitmap: the place frames_to_c_arrays packs one pixel of a 128x64    *)
(* frame into.                                                             *)
(***************************************************************************)
InitBitmap ==
    /\ pc = "pixel_call"
    /\ pixel \in (0..(OLED_WIDTH - 1)) \X (0..(OLED_HEIGHT - 1))
    /\ slot = NoSlot
    /\ cpp_file = NoCpp /\ impl_result = NoUpdate /\ static_bitmap = NoStatic
    /\ PipelineIdle /\ TimingIdle /\ SamplerIdle /\ PackerIdle /\ BuildIdle

\* the body of the two loops for x = pixel[1], y = pixel[2]
PackPixel ==
    /\ pc = "pixel_call"
    /\ slot' = [byte_index |-> byte_index(pixel[1], pixel[2], OLED_WIDTH),
                bit_position |-> bit_position_of(pixel[2]),
                packed |-> byte_index(pixel[1], pixel[2], OLED_WIDTH) < bitmap_size]
    /\ pc' = "pixel_packed"
    /\ UNCHANGED <<pipelineVars, timingVars, samplerVars, packerVars, buildVars,
                   updaterVars, pixel, static_bitmap>>

NextBitmap == PackPixel

SpecBitmap == InitBitmap /\ [][NextBitmap]_vars

\* C23: every pixel of a 128x64 frame is packed (its byte index is below
\* 1024, its bit below 8), and the pixel is recovered from its place:
\* x = byteIndex mod 128 and y = 8 * (byteIndex div 128) + bitPosition, so
\* no two pixels share a bit; the pixels being as many as the bits
\* (128 * 64 = 8 * 1024), every bit has its pixel.
C23_PixelBitBijection ==
    /\ OLED_WIDTH * OLED_HEIGHT = 8 * bitmap_size
    /\ pc = "pixel_packed" =>
          /\ slot.packed
          /\ slot.byte_index \in 0..(bitmap_size - 1)
          /\ slot.bit_position \in 0..7
          /\ pixel[1] = slot.byte_index % OLED_WIDTH
          /\ pixel[2] = 8 * (slot.byte_index \div OLED_WIDTH) + slot.bit_position

\* the last pixel packed into the last bit of the last byte
C23_Witness ==
    /\ pc = "pixel_packed"
    /\ pixel = <<OLED_WIDTH - 1, OLED_HEIGHT - 1>>
    /\ slot = [byte_index |-> 1023, bit_position |-> 7, packed |-> TRUE]

(***************************************************************************)
(* SpecTiming: get_svg_animation_params on one source file.  The file is   *)
(* unreadable, or holds one element of interest between an optional        *)
(* leading <set dur="5s"> and an optional trailing                         *)
(* <animateTransform dur="5s">.                                            *)
(***************************************************************************)
DurChars == {"0", "5", ".", "-", "s", "m"}

DurStrings == UNION {[1..n -> DurChars] : n \in 0..MaxDurLen}

FiveSeconds == <<"5", "s">>

Elements ==
    {[tag |-> t, has_dur |-> TRUE, dur |-> d] :
        t \in {"animate", "animateTransform", "set"}, d \in DurStrings}
    \cup {[tag |-> t, has_dur |-> FALSE, dur |-> <<>>] :
        t \in {"animate", "animateTransform", "set"}}

TimingSources ==
    {[readable |-> FALSE, elems |-> <<>>]}
    \cup {[readable |-> TRUE, elems |-> lead \o <<e>> \o rest] :
            lead \in {<<>>, <<[tag |-> "set", has_dur |-> TRUE, dur |-> FiveSeconds]>>},
            e \in Elements,
            rest \in {<<>>, <<[tag |-> "animateTransform", has_dur |-> TRUE, dur |-> FiveSeconds]>>}}

InitTiming ==
    /\ pc = "timing_call"
    /\ svg_source \in TimingSources
    /\ timing = NoTiming
    /\ PipelineIdle /\ SamplerIdle /\ PackerIdle /\ BuildIdle
    /\ OthersIdle

\* duration_ms = get_svg_animation_params(svg_path)
ExtractTiming ==
    /\ pc = "timing_call"
    /\ timing' = get_svg_animation_params(svg_source)
    /\ pc' = "timing_done"
    /\ UNCHANGED <<pipelineVars, svg_source, samplerVars, packerVars, buildVars>>
    /\ UNCHANGED <<updaterVars, bitmapVars, static_bitmap>>

NextTiming == ExtractTiming

SpecTiming == InitTiming /\ [][NextTiming]_vars

(***************************************************************************)
(* Timing Extractor properties.                                            *)
(***************************************************************************)
\* the dur values of the animation elements of the file, in text order
DeclaredDurations ==
    SelectSeq(svg_source.elems, LAMBDA e : e.has_dur /\ e.tag # "set")

\* a decimal number: optional sign, digits with at most one point
IsNumber(s) ==
    LET body == IF Len(s) > 0 /\ s[1] = "-" THEN Tail(s) ELSE s
    IN /\ \A k \in 1..Len(body) : body[k] \in {"0", "5", "."}
       /\ \E k \in 1..Len(body) : body[k] \in {"0", "5"}
       /\ \A j, k \in 1..Len(body) : (body[j] = "." /\ body[k] = ".") => j = k

\* value * scale rounded to the nearest integer (halves away from zero)
RECURSIVE NumberValue(_)
NumberValue(ds) ==
    IF Len(ds) = 0 THEN 0
    ELSE 10 * NumberValue(SubSeq(ds, 1, Len(ds) - 1)) + (IF ds[Len(ds)] = "5" THEN 5 ELSE 0)

RoundedScaled(s, scale) ==
    LET body == IF s[1] = "-" THEN Tail(s) ELSE s
        whole == SelectSeq(body, LAMBDA ch : ch # ".")
        dots == {k \in 1..Len(body) : body[k] = "."}
        decimals == IF dots = {} THEN 0 ELSE Len(body) - (CHOOSE k \in dots : TRUE)
        unit == Pow10(decimals)
        magnitude == (2 * NumberValue(whole) * scale + unit) \div (2 * unit)
    IN IF s[1] = "-" THEN 0 - magnitude ELSE magnitude

IsSeconds(d) ==
    /\ Len(d) >= 2 /\ d[Len(d)] = "s" /\ IsNumber(SubSeq(d, 1, Len(d) - 1))

IsMilliseconds(d) ==
    /\ Len(d) >= 3 /\ d[Len(d)] = "s" /\ d[Len(d) - 1] = "m"
    /\ IsNumber(SubSeq(d, 1, Len(d) - 2))

\* C7: the first declared duration is returned in milliseconds for both
\* units: <number>s gives number * 1000 and <number>ms gives number, each
\* rounded to the nearest integer.
C7_DeclaredDurationInMs ==
    (pc = "timing_done" /\ svg_source.readable /\ Len(DeclaredDurations) > 0) =>
        LET d == DeclaredDurations[1].dur
        IN /\ IsSeconds(d)
                => timing.value = RoundedScaled(SubSeq(d, 1, Len(d) - 1), 1000)
           /\ IsMilliseconds(d)
                => timing.value = RoundedScaled(SubSeq(d, 1, Len(d) - 2), 1)

\* C8: whatever the source holds, the returned cycle duration is an
\* integer greater than 0.
C8_DurationPositive ==
    pc = "timing_done" => (timing.value \in Int /\ timing.value > 0)

\* a declared value the parser rejects: the unit letter "s" is missing, or
\* what is left without the letters "s" is not a decimal number
Rejected(d) ==
    \/ \A k \in 1..Len(d) : d[k] # "s"
    \/ ~IsNumber(SelectSeq(d, LAMBDA ch : ch # "s"))

AnimateDur(d) ==
    [readable |-> TRUE, elems |-> <<[tag |-> "animate", has_dur |-> TRUE, dur |-> d]>>]

SamplerSources ==
    {PlainSvg, AnimateDur(<<"5", "s">>), AnimateDur(<<".", "5", "s">>),
     AnimateDur(<<".", "0", "0", "5", "s">>)}

FrameCounts == (1..MaxFrames) \cup {FRAME_COUNT}

ExtractFaults(n) ==
    {[setup_ok |-> so, base_ok |-> bo, saved |-> sv,
      mono_setup_ok |-> TRUE, mono_ok |-> 0..(n - 1), pack_bad |-> {}] :
        so \in BOOLEAN, bo \in BOOLEAN, sv \in SUBSET (0..(n - 1))}

InitSampler ==
    /\ pc = "extract_call"
    /\ svg_source \in SamplerSources
    /\ \E n \in FrameCounts :
          extract_args \in {[frame_count |-> n, fault |-> f] : f \in ExtractFaults(n)}
    /\ extracted = NoExtract
    /\ timing = NoTiming
    /\ PipelineIdle /\ PackerIdle /\ BuildIdle
    /\ OthersIdle

\* frame_paths, duration_ms = extract_svg_frames(svg_path, ..., frame_count, ...)
ExtractFrames ==
    /\ pc = "extract_call"
    /\ extracted' = extract_svg_frames(svg_source, extract_args.frame_count, extract_args.fault)
    /\ pc' = "extract_done"
    /\ UNCHANGED <<pipelineVars, timingVars, extract_args, packerVars, buildVars>>
    /\ UNCHANGED <<updaterVars, bitmapVars, static_bitmap>>

NextSampler == ExtractFrames

SpecSampler == InitSampler /\ [][NextSampler]_vars

(***************************************************************************)
(* Frame Sampler properties.  Frame i is drawn at the phase                *)
(* progress * 2 * pi of the cycle, that is at the instant                  *)
(* t_i = progress_i * cycleDurationMs; progress is kept as a fraction      *)
(* <<numerator, denominator>> and instants are compared exactly.           *)
(***************************************************************************)
AllFramesSaved ==
    /\ extract_args.fault.setup_ok /\ extract_args.fault.base_ok
    /\ extract_args.fault.saved = 0..(extract_args.frame_count - 1)

\* C10: N frames sampled at t_i = i * cycleDurationMs / N, strictly
\* increasing, t_0 = 0 and t_{N-1} < cycleDurationMs.
C10_SampleInstants ==
    (pc = "extract_done" /\ AllFramesSaved /\ extracted.duration_ms > 0) =>
        LET N == extract_args.frame_count
            D == extracted.duration_ms
            P(k) == extracted.frame_paths[k].progress
        IN /\ Len(extracted.frame_paths) = N
           /\ \A k \in 1..N : P(k)[1] * D * N = (k - 1) * D * P(k)[2]
           /\ \A k \in 1..(N - 1) :
                  P(k)[1] * D * P(k + 1)[2] < P(k + 1)[1] * D * P(k)[2]
           /\ P(1)[1] * D = 0
           /\ P(N)[1] * D < D * P(N)[2]

\* C11: with the base image made and every frame saved, the call yields
\* exactly N frames in index order, and for N > 1 no two of them (the first
\* and the last included) carry the same transform.
C11_FramesDistinguishable ==
    (pc = "extract_done" /\ AllFramesSaved) =>
        LET N == extract_args.frame_count
            F == extracted.frame_paths
        IN /\ Len(F) = N
           /\ \A k \in 1..N : F[k].index = k - 1
           /\ N > 1 => \A j, k \in 1..N : j # k => F[j].transform # F[k].transform

(***************************************************************************)
(* SpecPacker: either one frame goes through convert_frames_to_monochrome  *)
(* (open, grayscale, resize, threshold, save) and then through             *)
(* frames_to_c_arrays, or frames_to_c_arrays is called on monochrome       *)
(* files of other sizes.                                                   *)
(***************************************************************************)
Opaque(r, g, b) == [r |-> r, g |-> g, b |-> b, a |-> 255]

Palette ==
    {Opaque(0, 0, 0), Opaque(255, 255, 255), Opaque(255, 0, 0), Opaque(128, 128, 128),
     [r |-> 0, g |-> 0, b |-> 0, a |-> 0]}

\* the frames extract_svg_frames saves: TFT-sized RGBA images
SavedFrames ==
    {[mode |-> "RGBA", width |-> TFT_WIDTH, height |-> TFT_HEIGHT, bg |-> c,
      px |-> [p \in {<<0, 0>>} |-> d]] : c \in Palette, d \in Palette}

\* luminances on both sides of the threshold
LumValues == {0, threshold - 1, threshold, threshold + 1, 255}

\* pixels followed through the resize: one in the first band, one in the second
ResizeProbes == {<<0, 0>>, <<5, 8>>}

\* what LANCZOS resampling may return: any luminance at any pixel
ResizedImages ==
    {[mode |-> "L", width |-> OLED_WIDTH, height |-> OLED_HEIGHT, bg |-> b, px |-> f] :
        b \in {0, 255}, f \in [ResizeProbes -> LumValues]}

\* sizes of monochrome files for frames_to_c_arrays called on its own
PackSizes ==
    {<<OLED_WIDTH, OLED_HEIGHT>>, <<OLED_WIDTH, OLED_HEIGHT + 8>>, <<100, 88>>,
     <<130, 60>>, <<3, 10>>, <<1, 1>>}

PackProbes(w, h) == {<<0, 0>>, <<w - 1, h - 1>>}

MonoFiles(w, h) ==
    {[mode |-> "1", width |-> w, height |-> h, bg |-> b, px |-> f] :
        b \in {0, 255}, f \in [PackProbes(w, h) -> {0, 255}]}

MonoInputs ==
    {<<m>> : m \in UNION {MonoFiles(sz[1], sz[2]) : sz \in PackSizes}}
    \cup {<<m, n>> : m \in MonoFiles(3, 10), n \in MonoFiles(3, 10)}

InitPacker ==
    /\ \/ /\ pc = "frame_open"
          /\ img \in SavedFrames
          /\ mono_frames = <<>>
       \/ /\ pc = "pack_call"
          /\ img = NoImage
          /\ mono_frames \in MonoInputs
    /\ resized = NoImage /\ steps = <<>> /\ bitmaps = <<>> /\ repacked = NoRepack
    /\ PipelineIdle /\ TimingIdle /\ SamplerIdle /\ BuildIdle
    /\ OthersIdle

\* img = img.convert("L")
Grayscale ==
    /\ pc = "frame_open"
    /\ img' = convert_L(img)
    /\ steps' = Append(steps, "grayscale")
    /\ pc' = "gray"
    /\ UNCHANGED <<pipelineVars, timingVars, samplerVars, resized, mono_frames, bitmaps, repacked, buildVars>>
    /\ UNCHANGED <<updaterVars, bitmapVars, static_bitmap>>

\* img = img.resize((OLED_WIDTH, OLED_HEIGHT), LANCZOS)
Resize ==
    /\ pc = "gray"
    /\ img' \in ResizedImages
    /\ resized' = img'
    /\ steps' = Append(steps, "resize")
    /\ pc' = "resized"
    /\ UNCHANGED <<pipelineVars, timingVars, samplerVars, mono_frames, bitmaps, repacked, buildVars>>
    /\ UNCHANGED <<updaterVars, bitmapVars, static_bitmap>>

\* img = img.point(...); img.save(output_path); monochrome_paths.append(...)
Threshold ==
    /\ pc = "resized"
    /\ img' = point_1(img)
    /\ mono_frames' = Append(mono_frames, img')
    /\ steps' = Append(steps, "threshold")
    /\ pc' = "pack_call"
    /\ UNCHANGED <<pipelineVars, timingVars, samplerVars, resized, bitmaps, repacked, buildVars>>
    /\ UNCHANGED <<updaterVars, bitmapVars, static_bitmap>>

\* c_arrays, frame_count = frames_to_c_arrays(monochrome_paths, ...)
Pack ==
    /\ pc = "pack_call"
    /\ bitmaps' = frames_to_c_arrays(mono_frames)
    /\ steps' = Append(steps, "pack")
    /\ pc' = "packed"
    /\ UNCHANGED <<pipelineVars, timingVars, samplerVars, img, resized, mono_frames, repacked, buildVars>>
    /\ UNCHANGED <<updaterVars, bitmapVars, static_bitmap>>

\* frames_to_c_arrays called again, in a later run, on a list that ends with
\* one of the frames already packed, after nothing or after another frame
Repack ==
    /\ pc = "packed"
    /\ \E k \in 1..Len(mono_frames), before \in {<<>>, <<mono_frames[1]>>} :
          repacked' =
              [frame |-> k,
               bitmap_data |->
                   frames_to_c_arrays(Append(before, mono_frames[k]))[Len(before) + 1]]
    /\ steps' = Append(steps, "repack")
    /\ pc' = "repacked"
    /\ UNCHANGED <<pipelineVars, timingVars, samplerVars, img, resized, mono_frames, bitmaps, buildVars>>
    /\ UNCHANGED <<updaterVars, bitmapVars, static_bitmap>>

\* the static converter's png_to_c_array on one of the files packed
PackStatic ==
    /\ pc = "packed"
    /\ \E k \in 1..Len(mono_frames) :
          static_bitmap' = [frame |-> k, bitmap_data |-> png_to_c_array(mono_frames[k])]
    /\ steps' = Append(steps, "pack_static")
    /\ pc' = "static_packed"
    /\ UNCHANGED <<pipelineVars, timingVars, samplerVars, img, resized, mono_frames,
                   bitmaps, repacked, buildVars, updaterVars, bitmapVars>>

NextPacker == Grayscale \/ Resize \/ Threshold \/ Pack \/ Repack \/ PackStatic

SpecPacker == InitPacker /\ [][NextPacker]_vars

(***************************************************************************)
(* Monochrome Packer properties.                                           *)
(***************************************************************************)
\* bit b of Python element j of frame f's buffer
PackedBit(f, j, b) == (bitmaps[f][j + 1] \div Pow2(b)) % 2 = 1

\* C4: every frame's buffer is exactly 1024 bytes, whatever the image's
\* width and height.
C4_BufferIsCapacity ==
    pc = "packed" =>
        /\ Len(bitmaps) = Len(mono_frames)
        /\ \A f \in 1..Len(bitmaps) : Len(bitmaps[f]) = 1024

\* C4 witness: a 128x72 image, whose own packed size is 1152 bytes, was
\* packed.
C4_Witness ==
    /\ pc = "packed"
    /\ Len(mono_frames) = 1
    /\ mono_frames[1].width = 128 /\ mono_frames[1].height = 72
    /\ Len(bitmaps[1]) = 1024

\* C5: an "on" pixel (x, y) whose byteIndex = (y div 8) * W + x is below C
\* has bit y mod 8 of that byte set; and a set bit is the bit of an "on"
\* pixel of the image, so pixels with byteIndex >= C change nothing and all
\* other bits stay 0.
C5_BitLayout ==
    pc = "packed" =>
        \A f \in 1..Len(bitmaps) :
            LET W == mono_frames[f].width
                H == mono_frames[f].height
            IN /\ \A y \in 0..(H - 1) : \A x \in 0..(W - 1) :
                    (mono_frames[f].bg = 0 \/ <<x, y>> \in DOMAIN mono_frames[f].px) =>
                      ((getpixel(mono_frames[f], x, y) = 0 /\ (y \div 8) * W + x < 1024)
                          => PackedBit(f, (y \div 8) * W + x, y % 8))
               /\ \A j \in 0..(Len(bitmaps[f]) - 1) :
                    bitmaps[f][j + 1] # 0 =>
                      \A b \in 0..7 :
                        PackedBit(f, j, b) =>
                          /\ j < 1024
                          /\ 8 * (j \div W) + b < H
                          /\ getpixel(mono_frames[f], j % W, 8 * (j \div W) + b) = 0

\* C5 witness: a 100x88 image with its last pixel "on": that pixel's
\* byteIndex is 1099, it was dropped, while pixel (0, 0) was packed.
C5_Witness ==
    /\ pc = "packed"
    /\ Len(mono_frames) = 1
    /\ mono_frames[1].width = 100 /\ mono_frames[1].height = 88
    /\ mono_frames[1].bg = 255
    /\ getpixel(mono_frames[1], 99, 87) = 0
    /\ getpixel(mono_frames[1], 0, 0) = 0
    /\ PackedBit(1, 0, 0)

\* C6: after grayscale, resize, threshold and pack, in this order, a
\* pixel's bit is set exactly when its luminance after the resize is
\* at most 128.
C6_DarkPixelsLit ==
    (pc = "packed" /\ resized # NoImage) =>
        /\ steps = <<"grayscale", "resize", "threshold", "pack">>
        /\ \A y \in 0..63 : \A x \in 0..127 :
              PackedBit(1, (y \div 8) * 128 + x, y % 8) <=> (getpixel(resized, x, y) <= 128)

\* C6 witness: a frame with a pixel of luminance exactly 128 (lit) and
\* one of luminance 129 (not lit) was packed.
C6_Witness ==
    /\ pc = "packed" /\ resized # NoImage
    /\ getpixel(resized, 0, 0) = 128
    /\ getpixel(resized, 5, 8) = 129
    /\ PackedBit(1, 0, 0)
    /\ ~PackedBit(1, 128 + 5, 0)


\* C19: packing a frame again, alone or after another frame, gives the
\* same 1024 bytes as the first time: the buffer depends on the frame's
\* pixels only.
C19_PackingDeterministic ==
    pc = "repacked" =>
        /\ Len(repacked.bitmap_data) = 1024
        /\ repacked.bitmap_data = bitmaps[repacked.frame]

\* the second of two frames packed again, the first having set a bit the
\* second does not set
C19_Witness ==
    /\ pc = "repacked"
    /\ Len(mono_frames) = 2 /\ repacked.frame = 2
    /\ \E j \in 1..Len(bitmaps[1]) : bitmaps[1][j] # 0 /\ bitmaps[2][j] = 0


\* C24: for a monochrome file of w x h with ceil(h/8) * w <= 1024,
\* png_to_c_array's buffer has ceil(h/8) * w bytes, they are the first
\* bytes of frames_to_c_arrays' 1024-byte buffer for the same file, and the
\* rest of that buffer is 0; for 128 x 64 the two buffers are equal.
C24_PackersAgree ==
    pc = "static_packed" =>
        LET image == mono_frames[static_bitmap.frame]
            animated == bitmaps[static_bitmap.frame]
            static == static_bitmap.bitmap_data
            n == ((image.height + 7) \div 8) * image.width
        IN n <= 1024 =>
              /\ Len(static) = n
              /\ \A j \in 1..n : static[j] = animated[j]
              /\ \A j \in (n + 1)..1024 : animated[j] = 0
              /\ (image.width = 128 /\ image.height = 64) => static = animated

\* a 3 x 10 file with a pixel of its second, shorter band lit, packed by
\* both: 6 bytes against 1024
C24_Witness ==
    /\ pc = "static_packed"
    /\ mono_frames[static_bitmap.frame].width = 3
    /\ mono_frames[static_bitmap.frame].height = 10
    /\ Len(static_bitmap.bitmap_data) = 6
    /\ static_bitmap.bitmap_data[6] = 2
    /\ bitmaps[static_bitmap.frame][6] = 2

====
